---------------------------- MODULE Spec2Model ----------------------------
(***************************************************************************)
(* A model of the secure-guard WireGuard engine: the replay window, the    *)
(* transport counter on the sending and the receiving side, the session    *)
(* manager with the initiator's packet handlers, the initiator's           *)
(* connect/event loop and its keepalive timer, the responder's handshake   *)
(* path, the Noise handshake itself, the responder in daemon mode with its *)
(* packet handlers, peer updates, events and control requests, the message *)
(* parsers, and the daemon service that brings VPN instances up and down.  *)
(*                                                                         *)
(* Each component has its own specification (SpecWindow, SpecTransport,    *)
(* SpecReceive, SpecManager, SpecClient, SpecKeepalive, SpecServer,        *)
(* SpecHandshake, SpecDaemon, SpecParser, SpecService) over its own        *)
(* variables; the variables of the other components stay at their initial  *)
(* value.                                                                  *)
(*                                                                         *)
(* u64 values are written in two's-complement reading: a value v < 2^63 is *)
(* the integer v, a value v >= 2^63 is the integer v - 2^64.  So u64::MAX  *)
(* is -1, wrapping addition is integer addition, and the unsigned order is *)
(* ULt below.  Only values near 0 and near 2^64 occur.                     *)
(***************************************************************************)
EXTENDS Integers, FiniteSets, Sequences, TLC

VARIABLES
    \* ---- ReplayWindow (transport.rs) ----
    highest,        \* ReplayWindow.highest
    bitmap,         \* ReplayWindow.bitmap, as the set of bit positions that are 1
    accepted,       \* history: the counters check_and_update has returned true for
    in_order,       \* history: every counter presented was greater than all accepted before it
    \* ---- TransportState, sending side (transport.rs) ----
    sending_counter,\* TransportState.sending_counter (u64)
    overflow_checks,\* build profile: TRUE = overflow panics (debug), FALSE = wraps
    panicked,       \* the thread has panicked on an arithmetic overflow
    prev_nonce,     \* history: {counter} of the packet emitted before the last one
    last_nonce,     \* history: {counter} of the last packet emitted
    \* ---- time ----
    now,            \* the monotonic clock (Instant::now), in seconds
    \* ---- SessionManager (session.rs) ----
    current_session,      \* Option<Session>: <<>> or <<session>>
    previous_session,     \* Option<Session>
    handshake_state,      \* HandshakeState
    handshake_started,    \* Option<Instant>
    pending_sender_index, \* Option<u32>
    serial,               \* history: handshakes completed; names the key pair of a session
    keepalive_interval,   \* WireGuardClient.keepalive_interval: Option<Duration>
    \* ---- WireGuardClient (client.rs) ----
    pc,                   \* where WireGuardClient::run stands
    delay,                \* connect_with_retry's delay, in seconds
    attempts,             \* connect_with_retry's attempts
    pending_handshake,    \* Option<InitiatorHandshake>: <<>> or <<sender index>>
    cookie_state,         \* CookieState: <<>> or <<received_at>>
    \* ---- WireGuardServer (server.rs) ----
    peers,                \* the peer registry: public key -> peer record
    accepted_timestamp,   \* history: public key -> greatest timestamp of an accepted initiation
    daemon_mode,          \* shared_peers, peer_update_rx and peer_event_tx are Some
    peer_update_rx,       \* the PeerUpdate messages in the channel, oldest first
    server_pc,            \* where WireGuardServer::event_loop stands: "running", "stopped"
    \* ---- one handshake between an initiator and a responder (handshake.rs) ----
    hsk,                  \* both ends' configuration, handshake state, messages and results
    \* ---- DaemonService (daemon/mod.rs) ----
    svc,                  \* DaemonState, its lock, the requests in progress and the VPN tasks
    \* ---- last operation, for all components ----
    ev

-----------------------------------------------------------------------------
(* u64 arithmetic in two's-complement reading *)

U64_MAX == -1

\* unsigned a < b
ULt(a, b) == IF (a >= 0) = (b >= 0) THEN a < b ELSE a >= 0

\* unsigned a >= b
UGe(a, b) == ~ULt(a, b)

\* unsigned a > b
UGt(a, b) == ULt(b, a)

\* a + 1 on a u64 when the build wraps
WrappingInc(a) == a + 1

-----------------------------------------------------------------------------
(* The last operation performed: which handler ran, how it ended, and the  *)
(* values the properties read.                                              *)

NoEv ==
    [op |-> "init",      \* the handler or method that ran
     res |-> "ok",       \* "ok" or the error it returned
     idx |-> 0,          \* the session index it looked up or installed
     ctr |-> 0,          \* the counter of the packet
     age |-> 0,          \* the age of the session it used
     slot |-> "none",    \* the session it used: "current", "previous", "none"
     src |-> "none",     \* the source address of the plaintext packet
     wrote |-> FALSE,    \* it wrote the plaintext to the virtual interface
     pend |-> FALSE,     \* a handshake was pending when it ran
     peer |-> "none",    \* the peer the responder's handler acted for
     from |-> "none",    \* the UDP source of the packet it handled
     to |-> "none",      \* the UDP destination of the packet it sent
     emitted |-> <<>>,   \* the events it sent on the outbound event channel
     was_connected |-> FALSE, \* the was_connected of a RemovePeer response
     key |-> 0,          \* the key pair of the session the responder used
     mac2 |-> "zero",    \* the mac2 of the initiation the responder handled
     load |-> FALSE,     \* the responder was under load when it handled it
     mac1 |-> TRUE,      \* the MAC1 of the initiation the responder handled verifies
     static |-> <<>>,    \* the static key that initiation decrypts to, if it does
     gap |-> 0]          \* the time since the last send on the session it sent on

Ev(op, res, idx, ctr, age) ==
    [NoEv EXCEPT !.op = op, !.res = res, !.idx = idx, !.ctr = ctr, !.age = age]

-----------------------------------------------------------------------------
(* ReplayWindow *)

WINDOW_SIZE == 128

\* bounds of the counters presented to the window
MaxLow == 3
MaxJump == 2

\* the counters presented: a few small ones, the ones around one and two
\* window widths, so that shifts below, at and above WINDOW_SIZE all occur,
\* and the greatest u64 values
Counters ==
    (0 .. MaxLow)
        \cup { WINDOW_SIZE + k : k \in (0 - 1) .. (MaxJump - 1) }
        \cup { 2 * WINDOW_SIZE + MaxLow, U64_MAX }

\* u128 `bitmap << shift` for shift < 128: bits pushed past bit 127 are lost
Shl(bits, shift) == { b + shift : b \in { x \in bits : x + shift < WINDOW_SIZE } }

\* ReplayWindow::check_and_update, as [ok, highest, bitmap]
check_and_update_bad_mark(h, bm, counter) ==
    IF h = 0 /\ bm = {}
    THEN [ok |-> TRUE, highest |-> counter, bitmap |-> {0}]
    ELSE IF UGt(counter, h)
         THEN LET shift == counter - h
              IN  [ok |-> TRUE, highest |-> counter,
                   bitmap |-> IF UGe(shift, WINDOW_SIZE) THEN {0}
                              ELSE Shl(bm, shift)]
         ELSE LET diff == h - counter
              IN  IF UGe(diff, WINDOW_SIZE)
                  THEN [ok |-> FALSE, highest |-> h, bitmap |-> bm]
                  ELSE IF diff \in bm
                       THEN [ok |-> FALSE, highest |-> h, bitmap |-> bm]
                       ELSE [ok |-> TRUE, highest |-> h, bitmap |-> bm \cup {diff}]

\* a check_and_update without the lower edge of the window: a counter
\* WINDOW_SIZE or more behind highest is let through
check_and_update_no_floor(h, bm, counter) ==
    IF h = 0 /\ bm = {}
    THEN [ok |-> TRUE, highest |-> counter, bitmap |-> {0}]
    ELSE IF UGt(counter, h)
         THEN LET shift == counter - h
              IN  [ok |-> TRUE, highest |-> counter,
                   bitmap |-> IF UGe(shift, WINDOW_SIZE) THEN {0}
                              ELSE Shl(bm, shift) \cup {0}]
         ELSE LET diff == h - counter
              IN  IF UGe(diff, WINDOW_SIZE)
                  THEN [ok |-> TRUE, highest |-> h, bitmap |-> bm]
                  ELSE IF diff \in bm
                       THEN [ok |-> FALSE, highest |-> h, bitmap |-> bm]
                       ELSE [ok |-> TRUE, highest |-> h, bitmap |-> bm \cup {diff}]

\* a check_and_update that accepts a counter inside the window without
\* setting its bit
check_and_update_no_set(h, bm, counter) ==
    IF h = 0 /\ bm = {}
    THEN [ok |-> TRUE, highest |-> counter, bitmap |-> {0}]
    ELSE IF UGt(counter, h)
         THEN LET shift == counter - h
              IN  [ok |-> TRUE, highest |-> counter,
                   bitmap |-> IF UGe(shift, WINDOW_SIZE) THEN {0}
                              ELSE Shl(bm, shift) \cup {0}]
         ELSE LET diff == h - counter
              IN  IF UGe(diff, WINDOW_SIZE)
                  THEN [ok |-> FALSE, highest |-> h, bitmap |-> bm]
                  ELSE IF diff \in bm
                       THEN [ok |-> FALSE, highest |-> h, bitmap |-> bm]
                       ELSE [ok |-> TRUE, highest |-> h, bitmap |-> bm]

check_and_update(h, bm, counter) ==
    IF h = 0 /\ bm = {}
    THEN [ok |-> TRUE, highest |-> counter, bitmap |-> {0}]
    ELSE IF UGt(counter, h)
         THEN LET shift == counter - h
              IN  [ok |-> TRUE, highest |-> counter,
                   bitmap |-> IF UGe(shift, WINDOW_SIZE) THEN {0}
                              ELSE Shl(bm, shift) \cup {0}]
         ELSE LET diff == h - counter
              IN  IF UGe(diff, WINDOW_SIZE)
                  THEN [ok |-> FALSE, highest |-> h, bitmap |-> bm]
                  ELSE IF diff \in bm
                       THEN [ok |-> FALSE, highest |-> h, bitmap |-> bm]
                       ELSE [ok |-> TRUE, highest |-> h, bitmap |-> bm \cup {diff}]

\* ReplayWindow::would_accept
would_accept(h, bm, counter) ==
    IF h = 0 /\ bm = {} THEN TRUE
    ELSE IF UGt(counter, h) THEN TRUE
    ELSE LET diff == h - counter
         IN  IF UGe(diff, WINDOW_SIZE) THEN FALSE ELSE diff \notin bm

windowVars == <<highest, bitmap, accepted, in_order>>
transportVars == <<sending_counter, overflow_checks, panicked, prev_nonce, last_nonce>>
managerVars == <<now, current_session, previous_session, handshake_state,
                 handshake_started, pending_sender_index, serial, keepalive_interval>>

clientVars == <<pc, delay, attempts, pending_handshake, cookie_state>>
loopVars == <<daemon_mode, peer_update_rx, server_pc>>
serverVars == <<peers, accepted_timestamp, loopVars>>

handshakeVars == <<hsk>>

serviceVars == <<svc>>

vars == <<windowVars, transportVars, managerVars, clientVars, serverVars,
          handshakeVars, serviceVars, ev>>

\* SessionManager::new, at time 0, without a keepalive interval
ManagerNew ==
    /\ now = 0
    /\ current_session = <<>>
    /\ previous_session = <<>>
    /\ handshake_state = "None"
    /\ handshake_started = <<>>
    /\ pending_sender_index = <<>>
    /\ serial = 0

\* WireGuardClient::new
ClientNew ==
    /\ pc = "connect"
    /\ delay = 1
    /\ attempts = 0
    /\ pending_handshake = <<>>
    /\ cookie_state = <<>>

\* a server without peers
ServerNew ==
    /\ peers = <<>>
    /\ accepted_timestamp = <<>>
    /\ daemon_mode = FALSE
    /\ peer_update_rx = <<>>
    /\ server_pc = "running"

\* no handshake under way
HandshakeNew == hsk = <<>>

\* no daemon service
ServiceNew == svc = <<>>

\* ReplayWindow::new
WindowNew == highest = 0 /\ bitmap = {} /\ accepted = {} /\ in_order = TRUE

\* TransportState::new, sending side; the build profile is fixed at start
TransportNew ==
    /\ sending_counter = 0
    /\ panicked = FALSE
    /\ prev_nonce = {}
    /\ last_nonce = {}

\* one call window.check_and_update(counter)
CheckAndUpdate(counter) ==
    LET r == check_and_update(highest, bitmap, counter)
    IN  /\ highest' = r.highest
        /\ bitmap' = r.bitmap
        /\ accepted' = IF r.ok THEN accepted \cup {counter} ELSE accepted
        /\ in_order' = (in_order /\ \A a \in accepted : ULt(a, counter))
        /\ ev' = Ev("check_and_update", IF r.ok THEN "ok" ELSE "replay",
                    0, counter, 0)

\* one call window.would_accept(counter): reads only
WouldAccept(counter) ==
    /\ ev' = Ev("would_accept",
                IF would_accept(highest, bitmap, counter) THEN "ok" ELSE "replay",
                0, counter, 0)
    /\ UNCHANGED windowVars

InitWindow ==
    /\ WindowNew
    /\ TransportNew /\ overflow_checks = FALSE
    /\ ManagerNew /\ keepalive_interval = <<>>
    /\ ClientNew
    /\ ServerNew
    /\ HandshakeNew
    /\ ServiceNew
    /\ ev = NoEv

W_CheckAndUpdate ==
    \E c \in Counters : CheckAndUpdate(c) /\ UNCHANGED <<transportVars, managerVars, clientVars, serverVars, handshakeVars, serviceVars>>

W_WouldAccept ==
    \E c \in Counters : WouldAccept(c) /\ UNCHANGED <<transportVars, managerVars, clientVars, serverVars, handshakeVars, serviceVars>>

NextWindow == W_CheckAndUpdate \/ W_WouldAccept

SpecWindow == InitWindow /\ [][NextWindow]_vars

\* C1: a counter the replay window has accepted is rejected whenever it is
\* presented again: in every reachable window state, check_and_update refuses
\* each counter of the accepted history.
C1_AcceptedIsRejected ==
    \A c \in accepted : ~check_and_update(highest, bitmap, c).ok

\* C1 witness: after at least two accepts, an accepted counter was presented
\* again and refused.
C1_Witness ==
    /\ ev.op = "check_and_update" /\ ev.res = "replay"
    /\ ev.ctr \in accepted
    /\ Cardinality(accepted) >= 2

\* the window's view of a counter: at or behind top, and how far behind
Behind(counter) == ~UGt(counter, highest)
TooOld(counter) == Behind(counter) /\ UGe(highest - counter, WINDOW_SIZE)
InWindow(counter) == Behind(counter) /\ ULt(highest - counter, WINDOW_SIZE)

\* C28: a counter c with top - c >= 128 is rejected by the replay window, and
\* the call leaves top and the bitmap exactly as they were.
C28_TooOldRejectedUnchanged ==
    [][(ev'.op = "check_and_update" /\ TooOld(ev'.ctr)) =>
          /\ ev'.res = "replay"
          /\ highest' = highest
          /\ bitmap' = bitmap
      ]_vars

\* C28 witness: a counter that was never accepted was refused for being
\* WINDOW_SIZE or more behind the top of a window holding several counters.
C28_Witness ==
    /\ ev.op = "check_and_update" /\ ev.res = "replay"
    /\ TooOld(ev.ctr)
    /\ ev.ctr \notin accepted
    /\ Cardinality(bitmap) >= 2

\* C29: a counter c <= top with top - c < 128 is accepted if and only if it
\* has not been accepted before, which is exactly when its bit at position
\* top - c is clear; accepting it sets that bit and leaves top and the other
\* bits unchanged, refusing it changes nothing.
C29_InWindowAcceptedOnce ==
    [][(ev'.op = "check_and_update" /\ InWindow(ev'.ctr)) =>
          /\ (ev'.res = "ok") <=> (ev'.ctr \notin accepted)
          /\ (ev'.ctr \notin accepted) <=> ((highest - ev'.ctr) \notin bitmap)
          /\ highest' = highest
          /\ bitmap' = IF ev'.res = "ok" THEN bitmap \cup {highest - ev'.ctr}
                       ELSE bitmap
      ]_vars

\* C29 witness: a counter below the top was accepted out of order, after
\* two others, and is now marked in the bitmap.
C29_Witness ==
    /\ ev.op = "check_and_update" /\ ev.res = "ok"
    /\ ULt(ev.ctr, highest)
    /\ (highest - ev.ctr) \in bitmap
    /\ Cardinality(accepted) >= 3

\* the greatest of a set of u64 values
UMax(S) == CHOOSE m \in S : \A x \in S : ~ULt(m, x)

\* C30: as long as the counters received on a fresh window are strictly
\* increasing, each one is accepted, top is the greatest counter received,
\* and every counter received is recorded as seen: it would be refused, and
\* while it is less than WINDOW_SIZE behind top its bit is set.
C30_IncreasingAllAccepted ==
    in_order =>
        /\ (ev.op = "check_and_update" => ev.res = "ok")
        /\ (accepted # {} => highest = UMax(accepted))
        /\ \A c \in accepted :
              /\ ~would_accept(highest, bitmap, c)
              /\ (ULt(highest - c, WINDOW_SIZE) => (highest - c) \in bitmap)

\* C30 witness: an increasing sequence with a step below WINDOW_SIZE (1 to
\* 128) and a step above it (128 to more than 256) has been received.
C30_Witness ==
    /\ in_order
    /\ {1, WINDOW_SIZE, 2 * WINDOW_SIZE + MaxLow} \subseteq accepted
    /\ highest = 2 * WINDOW_SIZE + MaxLow

-----------------------------------------------------------------------------
(* TransportState, sending side *)

REJECT_AFTER_MESSAGES == U64_MAX - 8192

\* bounds: single encrypt calls are followed from 0 up to MaxSend; a long run
\* of successful calls ends RunMargin before the rekey threshold
MaxSend == 3
RunMargin == 2

RunTarget == REJECT_AFTER_MESSAGES - 1000 - RunMargin

\* encrypt_packet: the counter check; "ok" stands for the emitted Type 4
encrypt_packet(counter) ==
    IF UGe(counter, REJECT_AFTER_MESSAGES) THEN "SessionExpired" ELSE "ok"

\* TransportState::needs_rekey_by_counter
needs_rekey_by_counter(sc) == UGe(sc, REJECT_AFTER_MESSAGES - 1000)

\* TransportState::encrypt on a sending counter sc: take the counter, add one
\* to the field (a u64 addition: at u64::MAX it panics when the build checks
\* overflow and wraps to 0 otherwise), then encrypt_packet with the counter
\* taken.  The result, the counter taken and the new value of the field.
transport_encrypt(sc, checks) ==
    IF sc = U64_MAX /\ checks
    THEN [res |-> "panic", counter |-> sc, sc |-> sc]
    ELSE [res |-> encrypt_packet(sc), counter |-> sc, sc |-> WrappingInc(sc)]

\* one call state.encrypt(..)
Encrypt ==
    /\ ~panicked
    /\ (sending_counter >= 0 => sending_counter < MaxSend)
    /\ LET e == transport_encrypt(sending_counter, overflow_checks)
       IN  /\ sending_counter' = e.sc
           /\ panicked' = (e.res = "panic")
           /\ ev' = Ev("encrypt", e.res, 0, e.counter, 0)
           /\ IF e.res = "ok"
              THEN prev_nonce' = last_nonce /\ last_nonce' = {e.counter}
              ELSE UNCHANGED <<prev_nonce, last_nonce>>
    /\ UNCHANGED overflow_checks

\* A run of consecutive encrypt calls, each of them successful, taken as one
\* step: the counter goes from a small value to RunTarget, the last two
\* packets of the run carry RunTarget - 2 and RunTarget - 1.
EncryptRun ==
    /\ ~panicked
    /\ sending_counter >= 0
    /\ sending_counter' = RunTarget
    /\ prev_nonce' = {RunTarget - 2}
    /\ last_nonce' = {RunTarget - 1}
    /\ ev' = Ev("encrypt", encrypt_packet(RunTarget - 1), 0, RunTarget - 1, 0)
    /\ UNCHANGED <<overflow_checks, panicked>>

InitTransport ==
    /\ WindowNew
    /\ TransportNew /\ overflow_checks \in BOOLEAN
    /\ ManagerNew /\ keepalive_interval = <<>>
    /\ ClientNew
    /\ ServerNew
    /\ HandshakeNew
    /\ ServiceNew
    /\ ev = NoEv

T_Encrypt == Encrypt /\ UNCHANGED <<windowVars, managerVars, clientVars, serverVars, handshakeVars, serviceVars>>

T_EncryptRun == EncryptRun /\ UNCHANGED <<windowVars, managerVars, clientVars, serverVars, handshakeVars, serviceVars>>

NextTransport == T_Encrypt \/ T_EncryptRun

SpecTransport == InitTransport /\ [][NextTransport]_vars

\* C2: the counters of the packets one session emits are strictly increasing
\* (so no counter is the nonce of two packets): of any two consecutive
\* emitted packets the later one carries the greater counter.
C2_StrictlyIncreasing ==
    \A p \in prev_nonce : \A l \in last_nonce : ULt(p, l)

\* C26: once encrypt has taken a counter within 8192 of 2^64 - 1 it refuses
\* the packet with SessionExpired and emits nothing, and every encrypt call
\* that follows a refused one on that session is refused in the same way.
C26_ExhaustedCounterStaysRefused ==
    [][(/\ ev'.op = "encrypt"
        /\ \/ UGe(ev'.ctr, REJECT_AFTER_MESSAGES)
           \/ (ev.op = "encrypt" /\ ev.res = "SessionExpired")) =>
          /\ ev'.res = "SessionExpired"
          /\ last_nonce' = last_nonce
      ]_vars

-----------------------------------------------------------------------------
(* Session and SessionManager, with the initiator's packet handlers *)

REKEY_AFTER_TIME == 120
REJECT_AFTER_TIME == 180

\* bounds: at most MaxSessions handshakes, the clock moves in steps of
\* TimeStep up to MaxTime, at most MaxTun packets are sent on one session
MaxSessions == 2
TimeStep == 60
MaxTime == 180
MaxTun == 1

\* the counters inbound packets carry
PacketCounters == {0, 1}

\* the session indices in use
Indices == {1, 2}

\* generate_sender_index: any u32; nothing compares it with the live indices
generate_sender_index == Indices

\* the session indices the peer draws
RemoteIndices == {9}

\* UDP source addresses
Addrs == {"A", "B"}

\* the peer's allowed-IP set (config.peers[0].allowed_ips) and the source
\* addresses a decrypted IPv4 packet can carry
allowed_ips == {"10.0.0.2"}
SrcAddrs == {"10.0.0.2", "192.0.2.9"}

\* Session::new at time t; key names the key pair the handshake derived
SessionNew(local, remote, key, endpoint, t) ==
    [local_index |-> local, remote_index |-> remote, key |-> key,
     sending_counter |-> 0, highest |-> 0, bitmap |-> {},
     created_at |-> t, last_sent |-> t, endpoint |-> endpoint]

\* Session::age
age(s, t) == t - s.created_at

\* Session::is_expired
is_expired_late(s, t) == age(s, t) > REJECT_AFTER_TIME

is_expired(s, t) == age(s, t) >= REJECT_AFTER_TIME

\* Session::needs_rekey
session_needs_rekey(s, t) ==
    age(s, t) >= REKEY_AFTER_TIME \/ needs_rekey_by_counter(s.sending_counter)

\* a needs_keepalive that wants more than the interval to have passed
session_needs_keepalive_strict(s, interval, t) == t - s.last_sent > interval

\* Session::needs_keepalive
session_needs_keepalive(s, interval, t) == t - s.last_sent >= interval

\* SessionManager::current / current_mut: the current session is usable
has_current(cs, t) == cs # <<>> /\ ~is_expired(cs[1], t)

\* SessionManager::find_by_index: which session the index resolves to
find_by_index(cs, ps, index, t) ==
    IF cs # <<>> /\ cs[1].local_index = index /\ ~is_expired(cs[1], t)
    THEN "current"
    ELSE IF ps # <<>> /\ ps[1].local_index = index /\ ~is_expired(ps[1], t)
         THEN "previous"
         ELSE "none"

\* SessionManager::needs_rekey
needs_rekey(cs, hs, t) ==
    IF cs # <<>> THEN session_needs_rekey(cs[1], t) /\ hs = "None" ELSE FALSE

\* a decrypt that consults the replay window before the AEAD is opened: the
\* window moves even when the packet does not authenticate
transport_decrypt_window_first(s, pkt) ==
    LET r == check_and_update(s.highest, s.bitmap, pkt.ctr)
        s2 == [s EXCEPT !.highest = r.highest, !.bitmap = r.bitmap]
    IN  IF ~r.ok THEN [res |-> "ReplayDetected", s |-> s]
        ELSE IF pkt.key # s.key THEN [res |-> "Decryption", s |-> s2]
        ELSE [res |-> "ok", s |-> s2]

\* TransportState::decrypt on session s: decrypt_packet (the AEAD opens only
\* under the key pair the packet was sealed with), then the replay window
transport_decrypt(s, pkt) ==
    IF pkt.key # s.key
    THEN [res |-> "Decryption", s |-> s]
    ELSE LET r == check_and_update(s.highest, s.bitmap, pkt.ctr)
         IN  IF r.ok
             THEN [res |-> "ok",
                   s |-> [s EXCEPT !.highest = r.highest, !.bitmap = r.bitmap]]
             ELSE [res |-> "ReplayDetected", s |-> s]

\* SessionManager::establish_session with a Session::new made at the current time
EstablishSession(local, remote, endpoint) ==
    /\ serial < MaxSessions
    /\ serial' = serial + 1
    /\ previous_session' = IF current_session # <<>> THEN current_session
                           ELSE previous_session
    /\ current_session' = <<SessionNew(local, remote, serial + 1, endpoint, now)>>
    /\ handshake_state' = "Complete"
    /\ handshake_started' = <<>>
    /\ pending_sender_index' = <<>>
    /\ ev' = Ev("establish_session", "ok", 0, 0, 0)
    /\ UNCHANGED <<now, keepalive_interval>>

\* SessionManager::clear_previous
ClearPrevious ==
    /\ previous_session' = <<>>
    /\ ev' = Ev("clear_previous", "ok", 0, 0, 0)
    /\ UNCHANGED <<now, current_session, handshake_state, handshake_started,
                   pending_sender_index, serial, keepalive_interval>>

\* inbound Type 4 packets: receiver index, sealing key pair (0: no key pair
\* of ours), counter, plaintext (<<>>: empty, else <<source address>>), and
\* the UDP source
TransportPackets ==
    [idx : Indices, key : 0 .. MaxSessions, ctr : PacketCounters,
     plain : {<<>>} \cup { <<a>> : a \in SrcAddrs }, from : Addrs]

\* WireGuardClient::handle_transport_packet
HandleTransportPacket(pkt) ==
    LET slot == find_by_index(current_session, previous_session, pkt.idx, now)
        s == IF slot = "current" THEN current_session[1] ELSE previous_session[1]
    IN  IF slot = "none"
        THEN /\ ev' = Ev("transport", "InvalidSenderIndex", 0, 0, 0)
             /\ UNCHANGED managerVars
        ELSE LET d == transport_decrypt(s, pkt)
                 s2 == IF d.res = "ok" THEN [d.s EXCEPT !.endpoint = pkt.from]
                       ELSE d.s
                 wrote == d.res = "ok" /\ pkt.plain # <<>>
             IN  /\ ev' = IF d.res = "ok"
                          THEN [Ev("transport", "ok", 0, 0, age(s, now))
                                  EXCEPT !.slot = slot, !.wrote = wrote,
                                         !.src = IF wrote THEN pkt.plain[1] ELSE "none"]
                          ELSE Ev("transport", d.res, 0, 0, 0)
                 /\ IF slot = "current"
                    THEN current_session' = <<s2>> /\ UNCHANGED previous_session
                    ELSE previous_session' = <<s2>> /\ UNCHANGED current_session
                 /\ UNCHANGED <<now, handshake_state, handshake_started,
                                pending_sender_index, serial, keepalive_interval>>

\* the sending half of a handler on the current session: encrypt, and on
\* success mark_sent and send_to
SendOnCurrentUpTo(op, max) ==
    LET s == current_session[1]
        e == transport_encrypt(s.sending_counter, overflow_checks)
    IN  /\ s.sending_counter < max
        /\ current_session' =
              <<[s EXCEPT !.sending_counter = e.sc,
                          !.last_sent = IF e.res = "ok" THEN now ELSE @]>>
        /\ ev' = [Ev(op, e.res, 0, 0, age(s, now))
                    EXCEPT !.slot = "current", !.gap = now - s.last_sent]
        /\ UNCHANGED <<now, previous_session, handshake_state, handshake_started,
                       pending_sender_index, serial, keepalive_interval>>

SendOnCurrent(op) == SendOnCurrentUpTo(op, MaxTun)

\* WireGuardClient::handle_tun_packet, on a session that has sent fewer
\* than max packets
HandleTunPacketUpTo(max) ==
    IF ~has_current(current_session, now)
    THEN /\ ev' = Ev("tun", "NoSession", 0, 0, 0)
         /\ UNCHANGED managerVars
    ELSE SendOnCurrentUpTo("tun", max)

HandleTunPacket == HandleTunPacketUpTo(MaxTun)

\* WireGuardClient::send_keepalive, on a session that has sent fewer than
\* max packets
SendKeepaliveUpTo(max) ==
    IF ~has_current(current_session, now)
    THEN /\ ev' = Ev("keepalive", "NoSession", 0, 0, 0)
         /\ UNCHANGED managerVars
    ELSE IF /\ keepalive_interval # <<>>
            /\ ~session_needs_keepalive(current_session[1], keepalive_interval[1], now)
         THEN /\ ev' = Ev("keepalive", "not_needed", 0, 0, 0)
              /\ UNCHANGED managerVars
         ELSE SendOnCurrentUpTo("keepalive", max)

SendKeepalive == SendKeepaliveUpTo(MaxTun)

\* the clock moves on
Advance ==
    /\ now + TimeStep <= MaxTime
    /\ now' = now + TimeStep
    /\ ev' = Ev("advance", "ok", 0, 0, 0)
    /\ UNCHANGED <<current_session, previous_session, handshake_state,
                   handshake_started, pending_sender_index, serial,
                   keepalive_interval>>

InitManager ==
    /\ WindowNew
    /\ TransportNew /\ overflow_checks = FALSE
    /\ ManagerNew /\ keepalive_interval = <<TimeStep>>
    /\ ClientNew
    /\ ServerNew
    /\ HandshakeNew
    /\ ServiceNew
    /\ ev = NoEv

\* In SpecManager the peer stays at address "A" and a keepalive interval is
\* configured.
M_EstablishSession ==
    /\ \E local \in generate_sender_index, remote \in RemoteIndices :
          EstablishSession(local, remote, "A")
    /\ UNCHANGED <<windowVars, transportVars, clientVars, serverVars, handshakeVars, serviceVars>>

M_ClearPrevious == ClearPrevious /\ UNCHANGED <<windowVars, transportVars, clientVars, serverVars, handshakeVars, serviceVars>>

M_HandleTransportPacket ==
    /\ \E pkt \in TransportPackets : pkt.from = "A" /\ HandleTransportPacket(pkt)
    /\ UNCHANGED <<windowVars, transportVars, clientVars, serverVars, handshakeVars, serviceVars>>

M_HandleTunPacket == HandleTunPacket /\ UNCHANGED <<windowVars, transportVars, clientVars, serverVars, handshakeVars, serviceVars>>

M_SendKeepalive == SendKeepalive /\ UNCHANGED <<windowVars, transportVars, clientVars, serverVars, handshakeVars, serviceVars>>

M_Advance == Advance /\ UNCHANGED <<windowVars, transportVars, clientVars, serverVars, handshakeVars, serviceVars>>

NextManager ==
    \/ M_EstablishSession
    \/ M_ClearPrevious
    \/ M_HandleTransportPacket
    \/ M_HandleTunPacket
    \/ M_SendKeepalive
    \/ M_Advance

SpecManager == InitManager /\ [][NextManager]_vars

\* a session is live: installed and not expired
Live(opt) == opt # <<>> /\ ~is_expired(opt[1], now)

\* C5: installing a session while one is current demotes the old one to
\* previous and makes the new one current, and after the install the local
\* index of each of the two sessions, while it is live, resolves to that
\* session.
C5_InstallKeepsBothResolvable ==
    [][(serial' # serial /\ current_session # <<>>) =>
          /\ previous_session' = current_session
          /\ current_session' # <<>>
          /\ current_session'[1].key = serial'
          /\ find_by_index(current_session', previous_session',
                           current_session'[1].local_index, now') = "current"
          /\ (~is_expired(previous_session'[1], now') =>
                find_by_index(current_session', previous_session',
                              previous_session'[1].local_index, now') = "previous")
      ]_vars

\* C6: once a packet has been accepted on the new session, or once the
\* previous session is older than REJECT_AFTER_TIME, no packet is accepted on
\* the previous session.
C6_PreviousRetiredAfterFirstReceive ==
    (ev.op = "transport" /\ ev.res = "ok" /\ ev.slot = "previous") =>
        /\ current_session[1].bitmap = {}
        /\ ev.age <= REJECT_AFTER_TIME

\* C8: the local indices of the live sessions are distinct, so an index
\* resolves to at most one session.
C8_LiveIndicesDistinct ==
    (Live(current_session) /\ Live(previous_session)) =>
        current_session[1].local_index # previous_session[1].local_index

\* C9: a decrypted packet is written to the virtual interface only if its
\* source address lies in the peer's allowed-IP set.
C9_WrittenOnlyFromAllowedSource ==
    (ev.op = "transport" /\ ev.wrote) => ev.src \in allowed_ips

\* C10: a session whose age has reached REJECT_AFTER_TIME neither encrypts an
\* outbound packet (data or keepalive) nor accepts an inbound one: every
\* handler that ended well used a session younger than REJECT_AFTER_TIME.
C10_ExpiredSessionUnused ==
    (ev.op \in {"tun", "keepalive", "transport"} /\ ev.res = "ok") =>
        ev.age < REJECT_AFTER_TIME

\* C10 witness: a session that has carried a packet is REJECT_AFTER_TIME old
\* and the handler refused to use it.
C10_Witness ==
    /\ current_session # <<>>
    /\ age(current_session[1], now) >= REJECT_AFTER_TIME
    /\ current_session[1].sending_counter > 0
    /\ ev.op \in {"tun", "keepalive", "transport"}
    /\ ev.res \in {"NoSession", "InvalidSenderIndex"}

-----------------------------------------------------------------------------
(* TransportState, receiving side: decrypt on one TransportState, whose     *)
(* replay window is highest and bitmap                                      *)

\* the key pair of the receiving TransportState
ReceiveKey == 1

\* the Type 4 packets presented: sealed under our key pair or under another
\* one, with the counters of the window's checks and the first counter a
\* sender must not use
ReceivedPackets ==
    [key : {0, ReceiveKey}, ctr : Counters \cup {REJECT_AFTER_MESSAGES}]

\* one call state.decrypt(packet)
Decrypt(pkt) ==
    LET d == transport_decrypt(
                 [key |-> ReceiveKey, highest |-> highest, bitmap |-> bitmap], pkt)
    IN  /\ highest' = d.s.highest
        /\ bitmap' = d.s.bitmap
        /\ accepted' = IF d.res = "ok" THEN accepted \cup {pkt.ctr} ELSE accepted
        /\ in_order' = (in_order /\ \A a \in accepted : ULt(a, pkt.ctr))
        /\ ev' = [Ev("decrypt", d.res, 0, pkt.ctr, 0) EXCEPT !.key = pkt.key]

InitReceive ==
    /\ WindowNew
    /\ TransportNew /\ overflow_checks = FALSE
    /\ ManagerNew /\ keepalive_interval = <<>>
    /\ ClientNew
    /\ ServerNew
    /\ HandshakeNew
    /\ ServiceNew
    /\ ev = NoEv

R_Decrypt ==
    /\ \E pkt \in ReceivedPackets : Decrypt(pkt)
    /\ UNCHANGED <<transportVars, managerVars, clientVars, serverVars, handshakeVars, serviceVars>>

NextReceive == R_Decrypt

SpecReceive == InitReceive /\ [][NextReceive]_vars

\* C23: the replay window of a session moves only on a packet that passes
\* the AEAD and the replay check; a packet that fails the AEAD or that the
\* replay filter refuses leaves top and the bitmap unchanged.
C23_WindowMovesOnlyOnAuthenticPacket ==
    [][/\ (highest' # highest \/ bitmap' # bitmap) =>
             /\ ev'.op = "decrypt" /\ ev'.res = "ok"
             /\ ev'.key = ReceiveKey
             /\ would_accept(highest, bitmap, ev'.ctr)
       /\ (ev'.op = "decrypt" /\ ev'.res # "ok") =>
             (highest' = highest /\ bitmap' = bitmap)
      ]_vars

\* C23 witness: a packet that does not authenticate carried a counter ahead
\* of the top of a window that holds several counters, and was dropped.
C23_Witness ==
    /\ ev.op = "decrypt" /\ ev.res = "Decryption"
    /\ ev.key # ReceiveKey
    /\ UGt(ev.ctr, highest)
    /\ Cardinality(bitmap) >= 2

\* C27: an inbound transport packet whose counter is REJECT_AFTER_MESSAGES or
\* more is rejected, and the replay window is left as it was.
C27_HighCounterRejected ==
    [][(ev'.op = "decrypt" /\ UGe(ev'.ctr, REJECT_AFTER_MESSAGES)) =>
          /\ ev'.res # "ok"
          /\ highest' = highest
          /\ bitmap' = bitmap
      ]_vars

-----------------------------------------------------------------------------
(* WireGuardClient: connect_with_retry, perform_handshake and event_loop *)

MAX_RETRY_DELAY == 60
COOKIE_VALIDITY_SECS == 120

\* what recv_from can deliver while a handshake is awaited or in the loop:
\* a Type 2 that passes every check, one whose MAC1 fails, one that fails in
\* process_response, a Type 3 that decrypts, one that does not, a Type 1
HandshakePackets ==
    {"response_ok", "response_bad_mac1", "response_bad",
     "cookie_ok", "cookie_bad", "initiation"}

\* a has_valid_cookie without the age limit
has_valid_cookie_for_ever(cs, t) == cs # <<>>

\* CookieState::has_valid_cookie
has_valid_cookie(cs, t) == cs # <<>> /\ t - cs[1] < COOKIE_VALIDITY_SECS

\* perform_handshake up to its await: a fresh sender index, the initiation
\* (with mac2 when a cookie is valid), the pending handshake stored,
\* start_handshake, and the initiation sent
PerformHandshakeStart(next_pc) ==
    \E sender_index \in generate_sender_index :
        /\ pending_handshake' = <<sender_index>>
        /\ handshake_state' = "WaitingForResponse"
        /\ handshake_started' = <<now>>
        /\ pending_sender_index' = <<sender_index>>
        /\ pc' = next_pc
        /\ UNCHANGED <<now, current_session, previous_session, serial,
                       keepalive_interval, delay>>

\* where perform_handshake returns to with an error
AfterError == IF pc = "await_connect" THEN "sleep" ELSE "loop"

\* bound: connect_with_retry makes at most MaxAttempts attempts
MaxAttempts == 8

\* connect_with_retry: one attempt begins
Connect ==
    /\ pc = "connect"
    /\ attempts < MaxAttempts
    /\ attempts' = attempts + 1
    /\ PerformHandshakeStart("await_connect")
    /\ ev' = [Ev("initiation", "sent", 0, 0, 0)
                EXCEPT !.wrote = has_valid_cookie(cookie_state, now)]
    /\ UNCHANGED cookie_state

\* perform_handshake: HANDSHAKE_TIMEOUT passes without a datagram
AwaitTimeout ==
    /\ pc \in {"await_connect", "await_rekey"}
    /\ pc' = AfterError
    /\ ev' = Ev("handshake", "HandshakeTimeout", 0, 0, 0)
    /\ UNCHANGED <<managerVars, delay, attempts, pending_handshake, cookie_state>>

\* process_handshake_packet on a Type 2: Complete, or what it fails with.
\* With Complete connect_with_retry returns, and its locals delay and
\* attempts are gone (written as their initial values).
ProcessResponse(kind, from, pc_complete, pc_error) ==
    IF kind = "response_bad_mac1"
    THEN /\ pc' = pc_error
         /\ ev' = Ev("handshake", "MacVerification", 0, 0, 0)
         /\ UNCHANGED <<managerVars, delay, attempts, pending_handshake, cookie_state>>
    ELSE IF pending_handshake = <<>>
    THEN /\ pc' = pc_error
         /\ ev' = Ev("handshake", "NoSession", 0, 0, 0)
         /\ UNCHANGED <<managerVars, delay, attempts, pending_handshake, cookie_state>>
    ELSE IF kind = "response_bad"
    THEN /\ pending_handshake' = <<>>
         /\ pc' = pc_error
         /\ ev' = Ev("handshake", "Decryption", 0, 0, 0)
         /\ UNCHANGED <<managerVars, delay, attempts, cookie_state>>
    ELSE /\ pending_handshake' = <<>>
         /\ \E remote \in RemoteIndices :
               EstablishSession(pending_handshake[1], remote, from)
         /\ cookie_state' = <<>>
         /\ pc' = pc_complete
         /\ delay' = 1
         /\ attempts' = 0

\* perform_handshake: a Type 2 arrives
AwaitResponse ==
    /\ pc \in {"await_connect", "await_rekey"}
    /\ \E kind \in {"response_ok", "response_bad_mac1", "response_bad"},
          from \in Addrs :
          ProcessResponse(kind, from, "loop", AfterError)

\* perform_handshake: a Type 3 arrives; a cookie that decrypts is stored and
\* the handshake starts over at once
AwaitCookie ==
    /\ pc \in {"await_connect", "await_rekey"}
    /\ \/ /\ cookie_state' = <<now>>
          /\ PerformHandshakeStart(pc)
          /\ UNCHANGED attempts
          /\ ev' = [Ev("initiation", "sent", 0, 0, 0) EXCEPT !.wrote = TRUE]
       \/ /\ pc' = AfterError
          /\ ev' = Ev("handshake", "Decryption", 0, 0, 0)
          /\ UNCHANGED <<managerVars, delay, attempts, pending_handshake, cookie_state>>

\* perform_handshake: a datagram of another type arrives (a Type 1, or a
\* Type 4 of the current session)
AwaitOther ==
    /\ pc \in {"await_connect", "await_rekey"}
    /\ pc' = AfterError
    /\ ev' = Ev("handshake", "InvalidMessageType", 0, 0, 0)
    /\ UNCHANGED <<managerVars, delay, attempts, pending_handshake, cookie_state>>

\* (delay * 2).min(MAX_RETRY_DELAY)
next_delay_uncapped(d) == d * 2

next_delay(d) == IF d * 2 < MAX_RETRY_DELAY THEN d * 2 ELSE MAX_RETRY_DELAY

\* connect_with_retry: sleep(delay), then the delay doubles up to the cap;
\* the event holds the number of failed attempts and the time slept
Sleep ==
    /\ pc = "sleep"
    /\ delay' = next_delay(delay)
    /\ pc' = "connect"
    /\ ev' = Ev("sleep", "ok", 0, attempts, delay)
    /\ UNCHANGED <<managerVars, attempts, pending_handshake, cookie_state>>

\* event_loop, TUN branch
LoopTun ==
    /\ pc = "loop"
    /\ HandleTunPacket
    /\ UNCHANGED clientVars

\* event_loop, UDP branch, handle_udp_packet on a Type 4
LoopTransport ==
    /\ pc = "loop"
    /\ \E pkt \in TransportPackets : HandleTransportPacket(pkt)
    /\ UNCHANGED clientVars

\* event_loop, UDP branch, handle_udp_packet on a Type 2
LoopResponse ==
    /\ pc = "loop"
    /\ \E kind \in {"response_ok", "response_bad_mac1", "response_bad"},
          from \in Addrs :
          ProcessResponse(kind, from, "loop", "loop")

\* event_loop, UDP branch, handle_udp_packet on a Type 3 or a Type 1
LoopCookieOrInitiation ==
    /\ pc = "loop"
    /\ \E kind \in {"cookie_ok", "cookie_bad", "initiation"} :
          /\ cookie_state' = IF kind = "cookie_ok" THEN <<now>> ELSE cookie_state
          /\ ev' = Ev("udp", IF kind = "cookie_bad" THEN "Decryption" ELSE "ok",
                      0, 0, 0)
    /\ UNCHANGED <<managerVars, pc, delay, attempts, pending_handshake>>

\* event_loop, keepalive timer (it exists when an interval is configured)
LoopKeepalive ==
    /\ pc = "loop"
    /\ keepalive_interval # <<>>
    /\ SendKeepalive
    /\ UNCHANGED clientVars

\* event_loop, rekey check: perform_handshake when sessions.needs_rekey()
LoopRekeyCheck ==
    /\ pc = "loop"
    /\ LET a == IF current_session # <<>> THEN age(current_session[1], now) ELSE 0
           pend == handshake_state = "WaitingForResponse"
       IN  IF needs_rekey(current_session, handshake_state, now)
           THEN /\ PerformHandshakeStart("await_rekey")
                /\ UNCHANGED attempts
                /\ ev' = [Ev("rekey_check", "handshake_started", 0, 0, a)
                            EXCEPT !.pend = pend]
                /\ UNCHANGED cookie_state
           ELSE /\ ev' = [Ev("rekey_check", "not_needed", 0, 0, a)
                            EXCEPT !.pend = pend]
                /\ UNCHANGED <<managerVars, clientVars>>

\* the clock moves on, wherever the client stands
ClientAdvance == Advance /\ UNCHANGED clientVars

InitClient ==
    /\ WindowNew
    /\ TransportNew /\ overflow_checks = FALSE
    /\ ManagerNew /\ keepalive_interval \in {<<>>, <<TimeStep>>}
    /\ ClientNew
    /\ ServerNew
    /\ HandshakeNew
    /\ ServiceNew
    /\ ev = NoEv

I_Connect == Connect /\ UNCHANGED <<windowVars, transportVars, serverVars, handshakeVars, serviceVars>>

I_AwaitTimeout == AwaitTimeout /\ UNCHANGED <<windowVars, transportVars, serverVars, handshakeVars, serviceVars>>

I_AwaitResponse == AwaitResponse /\ UNCHANGED <<windowVars, transportVars, serverVars, handshakeVars, serviceVars>>

I_AwaitCookie == AwaitCookie /\ UNCHANGED <<windowVars, transportVars, serverVars, handshakeVars, serviceVars>>

I_AwaitOther == AwaitOther /\ UNCHANGED <<windowVars, transportVars, serverVars, handshakeVars, serviceVars>>

I_Sleep == Sleep /\ UNCHANGED <<windowVars, transportVars, serverVars, handshakeVars, serviceVars>>

I_LoopTun == LoopTun /\ UNCHANGED <<windowVars, transportVars, serverVars, handshakeVars, serviceVars>>

I_LoopTransport == LoopTransport /\ UNCHANGED <<windowVars, transportVars, serverVars, handshakeVars, serviceVars>>

I_LoopResponse == LoopResponse /\ UNCHANGED <<windowVars, transportVars, serverVars, handshakeVars, serviceVars>>

I_LoopCookieOrInitiation ==
    LoopCookieOrInitiation /\ UNCHANGED <<windowVars, transportVars, serverVars, handshakeVars, serviceVars>>

I_LoopKeepalive == LoopKeepalive /\ UNCHANGED <<windowVars, transportVars, serverVars, handshakeVars, serviceVars>>

I_LoopRekeyCheck == LoopRekeyCheck /\ UNCHANGED <<windowVars, transportVars, serverVars, handshakeVars, serviceVars>>

I_Advance == ClientAdvance /\ UNCHANGED <<windowVars, transportVars, serverVars, handshakeVars, serviceVars>>

NextClient ==
    \/ I_Connect
    \/ I_AwaitTimeout
    \/ I_AwaitResponse
    \/ I_AwaitCookie
    \/ I_AwaitOther
    \/ I_Sleep
    \/ I_LoopTun
    \/ I_LoopTransport
    \/ I_LoopResponse
    \/ I_LoopCookieOrInitiation
    \/ I_LoopKeepalive
    \/ I_LoopRekeyCheck
    \/ I_Advance

SpecClient == InitClient /\ [][NextClient]_vars

\* 2^n
RECURSIVE Pow2(_)
Pow2(n) == IF n = 0 THEN 1 ELSE 2 * Pow2(n - 1)

\* C13: after the n-th failed attempt the initiator waits 2^(n-1) seconds
\* (1, 2, 4, ...), and 60 seconds once that would be more.
C13_BackoffDoublesUpToCap ==
    ev.op = "sleep" =>
        /\ ev.age = (IF Pow2(ev.ctr - 1) < MAX_RETRY_DELAY THEN Pow2(ev.ctr - 1)
                     ELSE MAX_RETRY_DELAY)
        /\ ev.age <= MAX_RETRY_DELAY

\* the wait after the last attempt, which is one more than would bring the
\* doubled delay to the cap
C13_Witness ==
    ev.op = "sleep" /\ ev.ctr = MaxAttempts /\ ev.age = MAX_RETRY_DELAY

\* C14: when a cookie reply that decrypts arrives for the pending initiation,
\* the retry delay is back at its initial value and the initiation sent next
\* carries a mac2.
C14_CookieResetsBackoff ==
    [][(pc \in {"await_connect", "await_rekey"} /\ ev'.op = "initiation") =>
           (delay' = 1 /\ ev'.wrote)]_vars

\* the errors perform_handshake returns for a datagram it drops
DropErrors == {"InvalidMessageType", "Decryption", "MacVerification"}

\* C24: a packet dropped while the initiator awaits a handshake response
\* neither aborts nor consumes the pending handshake: the initiator goes on
\* awaiting, with the same pending handshake, so that a valid Type 2 for it
\* can still complete it.
C24_DroppedPacketKeepsHandshake ==
    [][(/\ pc \in {"await_connect", "await_rekey"}
        /\ ev'.op = "handshake"
        /\ ev'.res \in DropErrors) =>
          /\ pc' = pc
          /\ pending_handshake' = pending_handshake
          /\ handshake_state' = "WaitingForResponse"
      ]_vars

\* C25: when the wait for a response has timed out, the handshake state is
\* back at None (no handshake pending).
C25_TimeoutClearsHandshakeState ==
    (ev.op = "handshake" /\ ev.res = "HandshakeTimeout") =>
        /\ handshake_state = "None"
        /\ handshake_started = <<>>
        /\ pending_sender_index = <<>>

\* C35: an initiation carries a mac2 exactly when a cookie is cached that
\* was received less than COOKIE_VALIDITY_SECS ago, and the cached cookie
\* is discarded when a handshake completes; so after 120 s, or after a
\* completed handshake, initiations carry mac2 = 0 until a cookie reply is
\* accepted again.
C35_CookieUsedWhileFresh ==
    [][/\ ev'.op = "initiation" =>
             (ev'.wrote <=> (/\ cookie_state' # <<>>
                             /\ now' - cookie_state'[1] < COOKIE_VALIDITY_SECS))
       /\ serial' # serial => cookie_state' = <<>>
      ]_vars

\* C35 witness: an initiation went out without mac2 although a cookie is
\* cached, because the cookie is COOKIE_VALIDITY_SECS old.
C35_Witness ==
    /\ ev.op = "initiation" /\ ~ev.wrote
    /\ cookie_state # <<>>
    /\ now - cookie_state[1] >= COOKIE_VALIDITY_SECS

\* C3: when the rekey check runs on a current session whose age has reached
\* REKEY_AFTER_TIME or whose sending counter is within 1000 of
\* REJECT_AFTER_MESSAGES, and no handshake is pending, a handshake is started.
C3_RekeyStartsWhenDue ==
    (/\ ev.op = "rekey_check"
     /\ ~ev.pend
     /\ current_session # <<>>
     /\ session_needs_rekey(current_session[1], now)) =>
        ev.res = "handshake_started"

-----------------------------------------------------------------------------
(* WireGuardClient::event_loop with its keepalive timer, on the session the *)
(* connect established at time 0.  pc = "loop_tick" says that a tick of the *)
(* keepalive timer is ready; the clock does not pass a tick before the      *)
(* timer branch has run.                                                    *)

\* bounds: the clock moves in steps of KeepaliveStep seconds, the configured
\* interval is KeepaliveSteps of them, and the virtual interface delivers a
\* packet while the session has sent fewer than MaxData
KeepaliveStep == 10
KeepaliveSteps == 2
MaxData == 4

\* config.peers[0].persistent_keepalive
persistent_keepalive == KeepaliveSteps * KeepaliveStep

\* tokio::time::interval(d): the first tick is ready at once, the others
\* every d after it
interval_ready(d, t) == t % d = 0

\* event_loop, keepalive timer: the branch runs on a tick
TimerKeepalive ==
    /\ pc = "loop_tick"
    /\ SendKeepaliveUpTo(MaxData + MaxTime)
    /\ pc' = "loop"
    /\ UNCHANGED <<delay, attempts, pending_handshake, cookie_state>>

\* event_loop, TUN branch
TimerLoopTun ==
    /\ pc \in {"loop", "loop_tick"}
    /\ HandleTunPacketUpTo(MaxData)
    /\ UNCHANGED clientVars

\* the clock moves on when no tick is ready
TimerAdvance ==
    /\ pc = "loop"
    /\ now + KeepaliveStep <= MaxTime
    /\ now' = now + KeepaliveStep
    /\ pc' = IF interval_ready(keepalive_interval[1], now') THEN "loop_tick"
             ELSE "loop"
    /\ ev' = Ev("advance", "ok", 0, 0, 0)
    /\ UNCHANGED <<current_session, previous_session, handshake_state,
                   handshake_started, pending_sender_index, serial,
                   keepalive_interval, delay, attempts, pending_handshake,
                   cookie_state>>

\* the client as run() has it when event_loop begins: connected at time 0
InitKeepalive ==
    /\ WindowNew
    /\ TransportNew /\ overflow_checks = FALSE
    /\ now = 0
    /\ \E local \in generate_sender_index, remote \in RemoteIndices :
          current_session = <<SessionNew(local, remote, 1, "A", 0)>>
    /\ previous_session = <<>>
    /\ handshake_state = "Complete"
    /\ handshake_started = <<>>
    /\ pending_sender_index = <<>>
    /\ serial = 1
    /\ keepalive_interval = <<persistent_keepalive>>
    /\ pc = "loop_tick"
    /\ delay = 1
    /\ attempts = 0
    /\ pending_handshake = <<>>
    /\ cookie_state = <<>>
    /\ ServerNew
    /\ HandshakeNew
    /\ ServiceNew
    /\ ev = NoEv

K_TimerKeepalive == TimerKeepalive /\ UNCHANGED <<windowVars, transportVars, serverVars, handshakeVars, serviceVars>>

K_TimerLoopTun == TimerLoopTun /\ UNCHANGED <<windowVars, transportVars, serverVars, handshakeVars, serviceVars>>

K_LoopRekeyCheck == LoopRekeyCheck /\ UNCHANGED <<windowVars, transportVars, serverVars, handshakeVars, serviceVars>>

K_TimerAdvance == TimerAdvance /\ UNCHANGED <<windowVars, transportVars, serverVars, handshakeVars, serviceVars>>

NextKeepalive ==
    \/ K_TimerKeepalive
    \/ K_TimerLoopTun
    \/ K_LoopRekeyCheck
    \/ K_TimerAdvance

SpecKeepalive == InitKeepalive /\ [][NextKeepalive]_vars

\* the time since the last send on the current session
since_last_sent(cs, t) == t - cs[1].last_sent

-----------------------------------------------------------------------------
(* WireGuardServer: the responder's handshake path *)

\* bound: initiations carry the timestamps 1 .. MaxTs
MaxTs == 2

\* the peers of the server's configuration, and the static keys an
\* initiation can decrypt to ("P9" is no peer of ours)
ConfigPeers == {"P1"}
StaticKeys == {"P1", "P9"}

\* a peer record without sessions: allowed IPs, current and previous
\* session, endpoint
PeerNew(ips) ==
    [allowed_ips |-> ips, session |-> <<>>, previous |-> <<>>, endpoint |-> <<>>]

\* PeerManager::establish_session: the session becomes the peer's current
\* session, an existing current session becomes its previous one
peers_establish_session(ps, public_key, session) ==
    LET old == ps[public_key]
    IN  [ps EXCEPT ![public_key] =
            [old EXCEPT !.session = <<session>>,
                        !.previous = IF old.session # <<>> THEN old.session
                                     ELSE old.previous]]

\* the mac2 field of a Type 1 message: all zero (no cookie), a MAC that
\* does not verify under the current cookie, one that does
Mac2s == {"zero", "invalid", "valid"}

\* inbound Type 1 messages: whether MAC1 verifies, the static key the
\* message decrypts to (<<>>: process_initiation fails), the timestamp it
\* carries, its mac2, and the UDP source
Initiations ==
    [mac1_ok : BOOLEAN, static : {<<>>} \cup { <<k>> : k \in StaticKeys },
     timestamp : 1 .. MaxTs, mac2 : Mac2s, from : Addrs]

\* ResponderHandshake::process_initiation: the initiator's static key, or an
\* error; the timestamp is decrypted and dropped
process_initiation(init) ==
    IF init.static = <<>> THEN [ok |-> FALSE, peer_public |-> "none"]
    ELSE [ok |-> TRUE, peer_public |-> init.static[1]]

\* enum PeerEvent: Connected {public_key, endpoint}, Disconnected
\* {public_key, reason}, Added {public_key, allowed_ips}, Removed
\* {public_key, was_connected}; a field a variant lacks is "none" or FALSE
PeerEvent(type, public_key, endpoint, was_connected) ==
    [type |-> type, public_key |-> public_key, endpoint |-> endpoint,
     was_connected |-> was_connected]

\* a send_peer_connected_event that reports the first handshake of a peer
\* only: nothing is sent when the registry already holds a session for it
send_peer_connected_event_first_only(peer_key, endpoint) ==
    IF daemon_mode /\ peers[peer_key].session = <<>>
    THEN <<PeerEvent("Connected", peer_key, endpoint, FALSE)>>
    ELSE <<>>

\* WireGuardServer::send_peer_connected_event: the events it sends
send_peer_connected_event(public_key, endpoint) ==
    IF daemon_mode THEN <<PeerEvent("Connected", public_key, endpoint, FALSE)>>
    ELSE <<>>

\* WireGuardServer::handle_handshake_initiation, called while the server is
\* under load or not; the handler reads neither the load nor mac2
HandleHandshakeInitiationIf(init, under_load, mac1_verifies) ==
    LET r == process_initiation(init)
        err(e) == /\ ev' = [Ev("handle_initiation", e, 0, init.timestamp, 0)
                              EXCEPT !.mac2 = init.mac2, !.load = under_load,
                                     !.mac1 = init.mac1_ok,
                                     !.static = IF e = "MacVerification" THEN <<>>
                                                ELSE init.static]
                  /\ UNCHANGED <<now, serial, peers, accepted_timestamp, daemon_mode, peer_update_rx>>
    IN  IF ~mac1_verifies THEN err("MacVerification")
        ELSE IF ~r.ok THEN err("Decryption")
        ELSE IF r.peer_public \notin DOMAIN peers THEN err("InvalidSenderIndex")
        ELSE \E sender_index \in generate_sender_index, remote \in RemoteIndices :
                 /\ serial < MaxSessions
                 /\ serial' = serial + 1
                 /\ peers' =
                       [peers_establish_session(peers, r.peer_public,
                            SessionNew(sender_index, remote, serial + 1, init.from, now))
                          EXCEPT ![r.peer_public].endpoint = <<init.from>>]
                 /\ accepted_timestamp' =
                       [accepted_timestamp EXCEPT ![r.peer_public] =
                           IF init.timestamp > @ THEN init.timestamp ELSE @]
                 /\ ev' = [Ev("handle_initiation", "ok",
                                accepted_timestamp[r.peer_public], init.timestamp, 0)
                              EXCEPT !.peer = r.peer_public, !.from = init.from,
                                     !.to = init.from,
                                     !.mac2 = init.mac2, !.load = under_load,
                                     !.mac1 = init.mac1_ok, !.static = init.static,
                                     !.emitted = send_peer_connected_event(
                                                     r.peer_public, init.from)]
                 /\ UNCHANGED <<now, daemon_mode, peer_update_rx>>

\* a handle_handshake_initiation that sends its response before it looks the
\* peer up
handle_handshake_initiation_answering_first(init, under_load) ==
    LET r == process_initiation(init)
    IN  IF init.mac1_ok /\ r.ok /\ r.peer_public \notin DOMAIN peers
        THEN /\ ev' = [Ev("handle_initiation", "InvalidSenderIndex", 0, init.timestamp, 0)
                         EXCEPT !.mac2 = init.mac2, !.load = under_load,
                                !.mac1 = init.mac1_ok, !.static = init.static,
                                !.from = init.from, !.to = init.from]
             /\ UNCHANGED <<now, serial, peers, accepted_timestamp, daemon_mode,
                            peer_update_rx>>
        ELSE HandleHandshakeInitiationIf(init, under_load, init.mac1_ok)

\* a handle_handshake_initiation that goes on without verifying MAC1
handle_handshake_initiation_unverified(init, under_load) ==
    HandleHandshakeInitiationIf(init, under_load, TRUE)

\* WireGuardServer::handle_handshake_initiation
HandleHandshakeInitiation(init, under_load) ==
    HandleHandshakeInitiationIf(init, under_load, init.mac1_ok)

\* the clock moves on
ServerAdvance ==
    /\ now + TimeStep <= MaxTime
    /\ now' = now + TimeStep
    /\ ev' = Ev("advance", "ok", 0, 0, 0)
    /\ UNCHANGED <<serial, peers, accepted_timestamp, loopVars>>

\* PeerManager::find_by_index: the peers owning a session with this local
\* index
peers_find_by_index(ps, index) ==
    { k \in DOMAIN ps :
        \/ ps[k].session # <<>> /\ ps[k].session[1].local_index = index
        \/ ps[k].previous # <<>> /\ ps[k].previous[1].local_index = index }

\* PeerState::find_session_by_index: which of the peer's sessions
find_session_by_index(peer, index) ==
    IF peer.session # <<>> /\ peer.session[1].local_index = index THEN "current"
    ELSE IF peer.previous # <<>> /\ peer.previous[1].local_index = index
         THEN "previous"
         ELSE "none"

\* PeerManager::find_by_allowed_ip_mut: the peers whose allowed IPs hold the
\* destination
find_by_allowed_ip_mut(ps, dest_ip) ==
    { k \in DOMAIN ps : dest_ip \in ps[k].allowed_ips }

\* PeerState::current_session_mut
current_session_mut(peer) == peer.session

\* the address handle_tun_packet sends the encrypted packet to, kept at
\* establishment in the session
tun_endpoint_of_session(peer) == <<peer.session[1].endpoint>>

\* the address handle_tun_packet sends the encrypted packet to
tun_endpoint(peer) == peer.endpoint

\* WireGuardServer::handle_transport_packet
ServerHandleTransportPacket(pkt) ==
    LET owners == peers_find_by_index(peers, pkt.idx)
        err(e) == /\ ev' = Ev("server_transport", e, 0, 0, 0)
                  /\ UNCHANGED <<now, serial, peers, accepted_timestamp, daemon_mode, peer_update_rx>>
    IN  IF owners = {} THEN err("InvalidSenderIndex")
        ELSE \E k \in owners :
            LET peer == peers[k]
                slot == find_session_by_index(peer, pkt.idx)
            IN  IF slot = "none" THEN err("NoSession")
                ELSE LET s == IF slot = "current" THEN peer.session[1]
                              ELSE peer.previous[1]
                         d == transport_decrypt(s, pkt)
                     IN  IF d.res # "ok" THEN err(d.res)
                         ELSE /\ peers' =
                                    [peers EXCEPT ![k] =
                                        [peer EXCEPT
                                            !.session = IF slot = "current"
                                                        THEN <<d.s>> ELSE @,
                                            !.previous = IF slot = "previous"
                                                         THEN <<d.s>> ELSE @,
                                            !.endpoint = <<pkt.from>>]]
                              /\ ev' = [Ev("server_transport", "ok", 0, 0, 0)
                                          EXCEPT !.slot = slot,
                                                 !.wrote = pkt.plain # <<>>,
                                                 !.src = IF pkt.plain # <<>>
                                                         THEN pkt.plain[1]
                                                         ELSE "none",
                                                 !.peer = k,
                                                 !.from = pkt.from,
                                                 !.key = s.key]
                              /\ UNCHANGED <<now, serial, accepted_timestamp, daemon_mode, peer_update_rx>>

\* WireGuardServer::handle_tun_packet for a packet to dest_ip
ServerHandleTunPacket(dest_ip) ==
    LET owners == find_by_allowed_ip_mut(peers, dest_ip)
        err(e) == /\ ev' = Ev("server_tun", e, 0, 0, 0)
                  /\ UNCHANGED <<now, serial, peers, accepted_timestamp, daemon_mode, peer_update_rx>>
    IN  IF owners = {} THEN err("NoEndpoint")
        ELSE \E k \in owners :
            LET peer == peers[k]
            IN  IF peer.endpoint = <<>> THEN err("NoEndpoint")
                ELSE IF current_session_mut(peer) = <<>> THEN err("NoSession")
                ELSE LET endpoint == tun_endpoint(peer)
                         s == current_session_mut(peer)[1]
                         e == transport_encrypt(s.sending_counter, overflow_checks)
                     IN  /\ s.sending_counter < MaxTun
                         /\ peers' =
                               [peers EXCEPT ![k].session =
                                   <<[s EXCEPT !.sending_counter = e.sc,
                                               !.last_sent = IF e.res = "ok"
                                                             THEN now ELSE @]>>]
                         /\ ev' = [Ev("server_tun", e.res, 0, 0, 0)
                                     EXCEPT !.slot = "current", !.peer = k,
                                            !.key = s.key,
                                            !.to = IF e.res = "ok" THEN endpoint[1]
                                                   ELSE "none"]
                         /\ UNCHANGED <<now, serial, accepted_timestamp, daemon_mode, peer_update_rx>>

\* event_loop after a handler returned Err: the error is logged and the
\* loop breaks
on_handler_error_break == "stopped"

\* event_loop after a handler returned Err: the error is logged
on_handler_error == "running"

\* event_loop after a handler returned
loop_after(res) == IF res # "ok" THEN on_handler_error ELSE "running"

\* WireGuardServer::new: the peers of the configuration are registered
InitServer ==
    /\ WindowNew
    /\ TransportNew /\ overflow_checks = FALSE
    /\ ManagerNew /\ keepalive_interval = <<>>
    /\ ClientNew
    /\ HandshakeNew
    /\ ServiceNew
    /\ peers = [k \in ConfigPeers |-> PeerNew(allowed_ips)]
    /\ accepted_timestamp = [k \in ConfigPeers |-> 0]
    /\ daemon_mode = FALSE
    /\ peer_update_rx = <<>>
    /\ server_pc = "running"
    /\ ev = NoEv

S_HandleHandshakeInitiation ==
    /\ \E init \in Initiations, under_load \in BOOLEAN :
          HandleHandshakeInitiation(init, under_load)
    /\ server_pc' = loop_after(ev'.res)
    /\ UNCHANGED <<windowVars, transportVars, clientVars, handshakeVars, serviceVars, current_session,
                   previous_session, handshake_state, handshake_started,
                   pending_sender_index, keepalive_interval>>

S_Advance ==
    /\ ServerAdvance
    /\ UNCHANGED <<windowVars, transportVars, clientVars, handshakeVars, serviceVars, current_session,
                   previous_session, handshake_state, handshake_started,
                   pending_sender_index, keepalive_interval>>

NextServer == S_HandleHandshakeInitiation \/ S_Advance

SpecServer == InitServer /\ [][NextServer]_vars

\* C22: when the responder is under load and an initiation whose MAC1
\* verifies carries an absent or invalid mac2, the responder answers with a
\* cookie reply and stops: it sends no response and installs no session.
C22_UnderLoadCookieReply ==
    [][(/\ ev'.op = "handle_initiation"
        /\ ev'.load
        /\ ev'.mac2 # "valid"
        /\ ev'.res # "MacVerification") =>
          /\ ev'.res = "CookieReply"
          /\ peers' = peers
      ]_vars

\* C32: a Type 1 message whose MAC1 does not verify is dropped: the responder
\* sends nothing in return, emits no event and changes no peer, session or
\* accepted timestamp.
C32_BadMac1DroppedSilently ==
    [][(ev'.op = "handle_initiation" /\ ~ev'.mac1) =>
          /\ ev'.res = "MacVerification"
          /\ ev'.to = "none"
          /\ ev'.emitted = <<>>
          /\ UNCHANGED <<peers, accepted_timestamp, serial>>
      ]_vars

\* C32 witness: an initiation from a registered peer, with a fresh timestamp
\* and an unusable MAC1, was dropped while that peer has a session.
C32_Witness ==
    /\ ev.op = "handle_initiation" /\ ~ev.mac1
    /\ ev.res = "MacVerification"
    /\ \E k \in DOMAIN peers :
          /\ peers[k].session # <<>>
          /\ ev.ctr > accepted_timestamp[k]

\* C33: a Type 1 message whose MAC1 verifies and whose static key decrypts to
\* a key that is not registered is dropped: no response is sent, no event is
\* emitted, no session is installed and no peer record or endpoint changes.
C33_UnknownPeerDropped ==
    [][(/\ ev'.op = "handle_initiation"
        /\ ev'.mac1
        /\ ev'.static # <<>>
        /\ ev'.static[1] \notin DOMAIN peers) =>
          /\ ev'.res = "InvalidSenderIndex"
          /\ ev'.to = "none"
          /\ ev'.emitted = <<>>
          /\ UNCHANGED <<peers, accepted_timestamp, serial>>
      ]_vars

\* C33 witness: an initiation from an unregistered key was dropped while a
\* registered peer has a session.
C33_Witness ==
    /\ ev.op = "handle_initiation" /\ ev.mac1
    /\ ev.static # <<>>
    /\ ev.static[1] \notin DOMAIN peers
    /\ ev.res = "InvalidSenderIndex"
    /\ \E k \in DOMAIN peers : peers[k].session # <<>>

\* C7: the responder accepts a Type 1 message only if its timestamp is
\* greater than the greatest timestamp it has accepted from that peer.
C7_InitiationTimestampFresh ==
    (ev.op = "handle_initiation" /\ ev.res = "ok") => ev.ctr > ev.idx

-----------------------------------------------------------------------------
(* The Noise IKpsk2 handshake, with the primitives as free constructors:    *)
(* every value is a term <<tag, arguments..>>, two terms are equal exactly  *)
(* when they are built the same way (no collisions), and x25519 is          *)
(* commutative in the two private keys.                                     *)

\* private keys: the initiator's, the responder's, and ephemeral ones
InitiatorKeys == {<<"sk", "i1">>, <<"sk", "i2">>}
ResponderKeys == {<<"sk", "r1">>, <<"sk", "r2">>}
EphemeralKeys == {<<"sk", "e1">>, <<"sk", "e2">>}

\* pre-shared keys: none, all zeros given explicitly, a real one
ZeroPsk == <<"zero">>
Psks == {<<>>, <<ZeroPsk>>, << <<"psk", "1">> >>}

\* x25519::public_key
public_key(private) == <<"pub", private>>

\* x25519::dh
dh(private, public) == <<"dh", {private, public[2]}>>

\* blake2s::hash_two, kdf1, kdf2, kdf3, mac
hash_two(a, b) == <<"hash", a, b>>
kdf1(key, input) == <<"kdf1", key, input>>
kdf2(key, input) == <<(<<"kdf2_1", key, input>>), (<<"kdf2_2", key, input>>)>>
kdf3(key, input) ==
    <<(<<"kdf3_1", key, input>>), (<<"kdf3_2", key, input>>), (<<"kdf3_3", key, input>>)>>
mac(key, data) == <<"mac", key, data>>

\* aead::encrypt / aead::decrypt with nonce 0: decryption succeeds under
\* the key and the additional data the ciphertext was made with
aead_encrypt(key, plaintext, aad) == <<"aead", key, plaintext, aad>>
aead_decrypt(key, ciphertext, aad) ==
    IF ciphertext[2] = key /\ ciphertext[4] = aad
    THEN [ok |-> TRUE, plaintext |-> ciphertext[3]]
    ELSE [ok |-> FALSE, plaintext |-> <<"none">>]

\* noise::HandshakeState::new_initiator / new_responder
noise_new(responder_static) ==
    [chaining_key |-> <<"construction">>,
     hash |-> hash_two(hash_two(<<"construction">>, <<"identifier">>), responder_static)]

\* HandshakeState::mix_hash
mix_hash(st, data) == [st EXCEPT !.hash = hash_two(st.hash, data)]

\* HandshakeState::mix_key: the new state and the derived key
mix_key(st, input) ==
    [st |-> [st EXCEPT !.chaining_key = kdf2(st.chaining_key, input)[1]],
     key |-> kdf2(st.chaining_key, input)[2]]

\* HandshakeState::mix_key_and_hash
mix_key_and_hash(st, psk) ==
    LET k == kdf3(st.chaining_key, psk)
    IN  [st |-> mix_hash([st EXCEPT !.chaining_key = k[1]], k[2]), key |-> k[3]]

\* HandshakeState::encrypt_and_hash
encrypt_and_hash(st, key, plaintext) ==
    LET c == aead_encrypt(key, plaintext, st.hash)
    IN  [st |-> mix_hash(st, c), ciphertext |-> c]

\* HandshakeState::decrypt_and_hash
decrypt_and_hash(st, key, ciphertext) ==
    LET d == aead_decrypt(key, ciphertext, st.hash)
    IN  [ok |-> d.ok, st |-> mix_hash(st, ciphertext), plaintext |-> d.plaintext]

\* noise::mac1_key
mac1_key(peer_public) == hash_two(<<"mac1----">>, peer_public)

\* psk.unwrap_or([0u8; 32])
psk_or_zero(psk) == IF psk = <<>> THEN ZeroPsk ELSE psk[1]

\* TransportKeys::derive_initiator
derive_initiator(chaining_key) ==
    [sending_key |-> kdf2(chaining_key, <<"empty">>)[1],
     receiving_key |-> kdf2(chaining_key, <<"empty">>)[2]]

\* TransportKeys::derive_responder
derive_responder_unswapped(chaining_key) ==
    [sending_key |-> kdf2(chaining_key, <<"empty">>)[1],
     receiving_key |-> kdf2(chaining_key, <<"empty">>)[2]]

derive_responder(chaining_key) ==
    [sending_key |-> kdf2(chaining_key, <<"empty">>)[2],
     receiving_key |-> kdf2(chaining_key, <<"empty">>)[1]]

\* InitiatorHandshake::new and create_initiation with the ephemeral key
\* drawn: the message and the state kept for the response
create_initiation(cfg, ephemeral_private) ==
    LET ephemeral_public == public_key(ephemeral_private)
        st0 == noise_new(cfg.peer_static)
        st1 == [mix_hash(st0, ephemeral_public)
                  EXCEPT !.chaining_key = kdf1(st0.chaining_key, ephemeral_public)]
        es == mix_key(st1, dh(ephemeral_private, cfg.peer_static))
        s1 == encrypt_and_hash(es.st, es.key, public_key(cfg.static_private))
        ss == mix_key(s1.st, dh(cfg.static_private, cfg.peer_static))
        ts == encrypt_and_hash(ss.st, ss.key, <<"timestamp">>)
        body == <<"initiation", ephemeral_public, s1.ciphertext, ts.ciphertext>>
    IN  [msg |-> [ephemeral_public |-> ephemeral_public,
                  encrypted_static |-> s1.ciphertext,
                  encrypted_timestamp |-> ts.ciphertext,
                  mac1 |-> mac(mac1_key(cfg.peer_static), body)],
         noise_state |-> ts.st,
         ephemeral_private |-> ephemeral_private]

\* verify_initiation_mac1
verify_initiation_mac1(msg, our_public_key) ==
    msg.mac1 = mac(mac1_key(our_public_key),
                   <<"initiation", msg.ephemeral_public, msg.encrypted_static,
                     msg.encrypted_timestamp>>)

\* ResponderHandshake::new and process_initiation, with the Noise state kept
responder_process_initiation(static_private, msg) ==
    LET st0 == noise_new(public_key(static_private))
        st1 == [mix_hash(st0, msg.ephemeral_public)
                  EXCEPT !.chaining_key = kdf1(st0.chaining_key, msg.ephemeral_public)]
        es == mix_key(st1, dh(static_private, msg.ephemeral_public))
        s1 == decrypt_and_hash(es.st, es.key, msg.encrypted_static)
        ss == mix_key(s1.st, dh(static_private, s1.plaintext))
        ts == decrypt_and_hash(ss.st, ss.key, msg.encrypted_timestamp)
    IN  IF ~s1.ok THEN [ok |-> FALSE]
        ELSE IF ~ts.ok THEN [ok |-> FALSE]
        ELSE [ok |-> TRUE, initiator_static |-> s1.plaintext,
              initiator_ephemeral |-> msg.ephemeral_public, noise_state |-> ts.st]

\* ResponderHandshake::create_response with the ephemeral key drawn
create_response(r, psk, ephemeral_private) ==
    LET ephemeral_public == public_key(ephemeral_private)
        st0 == r.noise_state
        st1 == [mix_hash(st0, ephemeral_public)
                  EXCEPT !.chaining_key = kdf1(st0.chaining_key, ephemeral_public)]
        ee == mix_key(st1, dh(ephemeral_private, r.initiator_ephemeral))
        se == mix_key(ee.st, dh(ephemeral_private, r.initiator_static))
        pk == mix_key_and_hash(se.st, psk_or_zero(psk))
        en == encrypt_and_hash(pk.st, pk.key, <<"empty">>)
        body == <<"response", ephemeral_public, en.ciphertext>>
    IN  [response |-> [ephemeral_public |-> ephemeral_public,
                       encrypted_nothing |-> en.ciphertext,
                       mac1 |-> mac(mac1_key(r.initiator_static), body)],
         result |-> derive_responder(en.st.chaining_key)]

\* verify_response_mac1
verify_response_mac1(response, our_public_key) ==
    response.mac1 = mac(mac1_key(our_public_key),
                        <<"response", response.ephemeral_public,
                          response.encrypted_nothing>>)

\* a process_response that does not look at receiver_index
process_response_any_index(cfg, i, response) ==
    LET st0 == i.noise_state
        st1 == [mix_hash(st0, response.ephemeral_public)
                  EXCEPT !.chaining_key = kdf1(st0.chaining_key, response.ephemeral_public)]
        ee == mix_key(st1, dh(i.ephemeral_private, response.ephemeral_public))
        se == mix_key(ee.st, dh(cfg.static_private, response.ephemeral_public))
        pk == mix_key_and_hash(se.st, psk_or_zero(cfg.psk))
        en == decrypt_and_hash(pk.st, pk.key, response.encrypted_nothing)
    IN  IF ~en.ok THEN [ok |-> FALSE, error |-> "Decryption"]
        ELSE [ok |-> TRUE, result |-> derive_initiator(en.st.chaining_key)]

\* InitiatorHandshake::process_response
process_response(cfg, i, response) ==
    LET st0 == i.noise_state
        st1 == [mix_hash(st0, response.ephemeral_public)
                  EXCEPT !.chaining_key = kdf1(st0.chaining_key, response.ephemeral_public)]
        ee == mix_key(st1, dh(i.ephemeral_private, response.ephemeral_public))
        se == mix_key(ee.st, dh(cfg.static_private, response.ephemeral_public))
        pk == mix_key_and_hash(se.st, psk_or_zero(cfg.psk))
        en == decrypt_and_hash(pk.st, pk.key, response.encrypted_nothing)
    IN  IF response.receiver_index # i.sender_index
        THEN [ok |-> FALSE, error |-> "InvalidSenderIndex"]
        ELSE IF ~en.ok THEN [ok |-> FALSE, error |-> "Decryption"]
        ELSE [ok |-> TRUE, result |-> derive_initiator(en.st.chaining_key)]

\* the two ends' configurations: the initiator's keys, the peer key and PSK
\* it is configured with; the responder's key, the peer it has registered
\* and that peer's PSK
HandshakeConfigs ==
    [i : [static_private : InitiatorKeys,
          peer_static : {public_key(k) : k \in ResponderKeys},
          psk : Psks],
     r : [static_private : ResponderKeys,
          peer : {public_key(k) : k \in InitiatorKeys},
          psk : Psks]]

\* the initiator sends its initiation (perform_handshake), under a sender
\* index drawn for this handshake
CreateInitiation ==
    /\ hsk.phase = "new"
    /\ \E e \in EphemeralKeys, sender_index \in generate_sender_index :
          LET c == create_initiation(hsk.i, e)
          IN  hsk' = [hsk EXCEPT !.phase = "initiated",
                                 !.initiation = [sender_index |-> sender_index] @@ c.msg,
                                 !.initiator = [sender_index |-> sender_index] @@ c]

\* the responder's handshake work in handle_handshake_initiation: MAC1,
\* process_initiation, the peer lookup, create_response with the peer's PSK
Respond ==
    /\ hsk.phase = "initiated"
    /\ \E e \in EphemeralKeys :
          LET msg == hsk.initiation
              r == responder_process_initiation(hsk.r.static_private, msg)
          IN  IF ~verify_initiation_mac1(msg, public_key(hsk.r.static_private))
              THEN hsk' = [hsk EXCEPT !.phase = "dropped", !.error = "MacVerification"]
              ELSE IF ~r.ok
              THEN hsk' = [hsk EXCEPT !.phase = "dropped", !.error = "Decryption"]
              ELSE IF r.initiator_static # hsk.r.peer
              THEN hsk' = [hsk EXCEPT !.phase = "dropped", !.error = "InvalidSenderIndex"]
              ELSE LET c == create_response(r, hsk.r.psk, e)
                   IN  hsk' = [hsk EXCEPT !.phase = "responded",
                                          !.response =
                                              [receiver_index |-> msg.sender_index]
                                                  @@ c.response,
                                          !.responder_result = c.result]

\* the Type 2 message reaches the initiator with another receiver_index (a
\* response meant for another handshake, or one rewritten on the way; its
\* MAC1 is keyed by the initiator's public key alone)
ResponseWithOtherIndex ==
    /\ hsk.phase = "responded"
    /\ \E index \in Indices :
          /\ index # hsk.response.receiver_index
          /\ hsk' = [hsk EXCEPT !.response.receiver_index = index]

\* the initiator's process_handshake_packet on the response: MAC1, then
\* process_response
ProcessHandshakeResponse ==
    /\ hsk.phase = "responded"
    /\ LET p == process_response(hsk.i, hsk.initiator, hsk.response)
       IN  IF ~verify_response_mac1(hsk.response, public_key(hsk.i.static_private))
           THEN hsk' = [hsk EXCEPT !.phase = "failed", !.error = "MacVerification"]
           ELSE IF ~p.ok
           THEN hsk' = [hsk EXCEPT !.phase = "failed", !.error = p.error]
           ELSE hsk' = [hsk EXCEPT !.phase = "complete", !.initiator_result = p.result]

InitHandshake ==
    /\ WindowNew
    /\ TransportNew /\ overflow_checks = FALSE
    /\ ManagerNew /\ keepalive_interval = <<>>
    /\ ClientNew
    /\ ServerNew
    /\ ServiceNew
    /\ \E cfg \in HandshakeConfigs :
          hsk = [phase |-> "new", i |-> cfg.i, r |-> cfg.r, error |-> "none",
                 initiation |-> <<>>, initiator |-> <<>>, response |-> <<>>,
                 responder_result |-> <<>>, initiator_result |-> <<>>]
    /\ ev = NoEv

H_CreateInitiation ==
    /\ CreateInitiation
    /\ UNCHANGED <<windowVars, transportVars, managerVars, clientVars, serverVars,
                   serviceVars, ev>>

H_Respond ==
    /\ Respond
    /\ UNCHANGED <<windowVars, transportVars, managerVars, clientVars, serverVars,
                   serviceVars, ev>>

H_ResponseWithOtherIndex ==
    /\ ResponseWithOtherIndex
    /\ UNCHANGED <<windowVars, transportVars, managerVars, clientVars, serverVars,
                   serviceVars, ev>>

H_ProcessHandshakeResponse ==
    /\ ProcessHandshakeResponse
    /\ UNCHANGED <<windowVars, transportVars, managerVars, clientVars, serverVars,
                   serviceVars, ev>>

NextHandshake ==
    \/ H_CreateInitiation
    \/ H_Respond
    \/ H_ResponseWithOtherIndex
    \/ H_ProcessHandshakeResponse

SpecHandshake == InitHandshake /\ [][NextHandshake]_vars

\* the two ends hold each other's public key and the same optional PSK
Paired ==
    /\ hsk.i.peer_static = public_key(hsk.r.static_private)
    /\ hsk.r.peer = public_key(hsk.i.static_private)
    /\ hsk.i.psk = hsk.r.psk

\* the response before the initiator is the one create_response built for its
\* initiation
ResponseAsSent ==
    hsk.phase \in {"responded", "complete", "failed"}
        => hsk.response.receiver_index = hsk.initiation.sender_index

\* C11: between two ends that hold each other's public key and the same
\* optional pre-shared key, neither the initiation nor the response is
\* refused, and once the response is processed the initiator's sending key is
\* the responder's receiving key and the initiator's receiving key is the
\* responder's sending key.
C11_PairedHandshakeAgreesOnKeys ==
    (Paired /\ ResponseAsSent) =>
        /\ hsk.phase \notin {"dropped", "failed"}
        /\ hsk.phase = "complete" =>
              /\ hsk.initiator_result.sending_key = hsk.responder_result.receiving_key
              /\ hsk.initiator_result.receiving_key = hsk.responder_result.sending_key

\* C11 witness: a paired handshake with a real pre-shared key has completed.
C11_Witness ==
    /\ Paired
    /\ hsk.phase = "complete"
    /\ hsk.i.psk \notin {<<>>, <<ZeroPsk>>}

\* C34: a Type 2 response whose receiver_index differs from the sender_index
\* of the initiation the initiator is waiting on is refused, and no session
\* keys are derived from it.
C34_OtherIndexResponseDropped ==
    (/\ hsk.phase \in {"complete", "failed"}
     /\ hsk.response.receiver_index # hsk.initiator.sender_index)
        => (/\ hsk.phase = "failed"
            /\ hsk.initiator_result = <<>>)

\* C34 witness: between paired ends, a response that would otherwise have
\* completed the handshake was refused for its receiver_index.
C34_Witness ==
    /\ Paired
    /\ hsk.phase = "failed"
    /\ hsk.error = "InvalidSenderIndex"
    /\ hsk.response.receiver_index # hsk.initiator.sender_index
    /\ hsk.initiator_result = <<>>

-----------------------------------------------------------------------------
(* WireGuardServer in daemon mode (new_with_channels): the registry is      *)
(* shared with the DaemonService, peers are added and removed through the   *)
(* PeerUpdate channel and events go out on the PeerEvent channel.           *)

\* WireGuardServer::new_with_channels, after start_server has registered the
\* peers of the bootstrap configuration
InitDaemon ==
    /\ WindowNew
    /\ TransportNew /\ overflow_checks = FALSE
    /\ ManagerNew /\ keepalive_interval = <<>>
    /\ ClientNew
    /\ HandshakeNew
    /\ ServiceNew
    /\ peers = [k \in ConfigPeers |-> PeerNew(allowed_ips)]
    /\ accepted_timestamp = [k \in ConfigPeers |-> 0]
    /\ daemon_mode = TRUE
    /\ peer_update_rx = <<>>
    /\ server_pc = "running"
    /\ ev = NoEv

daemonFrame == <<windowVars, transportVars, clientVars, handshakeVars, serviceVars, current_session,
                 previous_session, handshake_state, handshake_started,
                 pending_sender_index, keepalive_interval>>

\* In SpecDaemon every initiation carries a fresh timestamp and every
\* transport packet the counter 0, and the clock stands still: no handler of
\* the server reads it but to stamp a session.
D_HandleHandshakeInitiation ==
    /\ server_pc = "running"
    /\ \E init \in Initiations :
          /\ init.timestamp = MaxTs
          /\ init.mac2 = "zero"
          /\ HandleHandshakeInitiation(init, FALSE)
    /\ server_pc' = loop_after(ev'.res)
    /\ UNCHANGED daemonFrame

D_HandleTransportPacket ==
    /\ server_pc = "running"
    /\ \E pkt \in TransportPackets : pkt.ctr = 0 /\ ServerHandleTransportPacket(pkt)
    /\ server_pc' = loop_after(ev'.res)
    /\ UNCHANGED daemonFrame

D_HandleTunPacket ==
    /\ server_pc = "running"
    /\ \E dest_ip \in SrcAddrs : ServerHandleTunPacket(dest_ip)
    /\ server_pc' = loop_after(ev'.res)
    /\ UNCHANGED daemonFrame

\* bound: the PeerUpdate channel holds at most MaxUpdates messages
MaxUpdates == 1

\* the keys control requests name
UpdateKeys == ConfigPeers

\* enum PeerUpdate
PeerUpdate(type, peer_key) == [type |-> type, public_key |-> peer_key]

\* PeerManager::has_peer
has_peer(ps, peer_key) == peer_key \in DOMAIN ps

\* PeerManager::add_peer: the registries it can leave.  A new key is
\* registered without sessions; for a key already registered the registry
\* either keeps the record or replaces it by a new one.
peers_add_peer(ps, peer_key, ips) ==
    IF peer_key \in DOMAIN ps
    THEN {ps, [ps EXCEPT ![peer_key] = PeerNew(ips)]}
    ELSE {[k \in DOMAIN ps \cup {peer_key} |->
              IF k = peer_key THEN PeerNew(ips) ELSE ps[k]]}

\* PeerManager::remove_peer that takes the allowed IPs of the peer out of the
\* routing table and leaves the record with its sessions
peers_remove_peer_routes_only(ps, peer_key) ==
    IF peer_key \in DOMAIN ps THEN [ps EXCEPT ![peer_key].allowed_ips = {}] ELSE ps

\* PeerManager::remove_peer: the registry without the peer; its sessions and
\* its entries in the two tables go with the record
peers_remove_peer(ps, peer_key) ==
    [k \in DOMAIN ps \ {peer_key} |-> ps[k]]

\* WireGuardServer::handle_add_peer
ServerHandleAddPeer(peer_key, ips) ==
    /\ \E ps \in peers_add_peer(peers, peer_key, ips) : peers' = ps
    /\ accepted_timestamp' =
          [k \in DOMAIN peers \cup {peer_key} |->
              IF k \in DOMAIN accepted_timestamp THEN accepted_timestamp[k] ELSE 0]
    /\ ev' = [Ev("add_peer", "ok", 0, 0, 0)
                EXCEPT !.peer = peer_key,
                       !.emitted = <<PeerEvent("Added", peer_key, "none", FALSE)>>]
    /\ UNCHANGED <<now, serial>>

\* WireGuardServer::handle_remove_peer
ServerHandleRemovePeer(peer_key) ==
    /\ peers' = peers_remove_peer(peers, peer_key)
    /\ accepted_timestamp' =
          [k \in DOMAIN peers \ {peer_key} |-> accepted_timestamp[k]]
    /\ ev' = [Ev("remove_peer", "ok", 0, 0, 0)
                EXCEPT !.peer = peer_key,
                       !.emitted =
                           IF has_peer(peers, peer_key)
                           THEN <<PeerEvent("Removed", peer_key, "none",
                                            peers[peer_key].session # <<>>)>>
                           ELSE <<>>]
    /\ UNCHANGED <<now, serial>>

\* event_loop, peer update branch: rx.recv() delivers the oldest message
ProcessPeerUpdate ==
    /\ server_pc = "running"
    /\ peer_update_rx # <<>>
    /\ LET update == Head(peer_update_rx)
       IN  IF update.type = "Add"
           THEN ServerHandleAddPeer(update.public_key, allowed_ips)
           ELSE ServerHandleRemovePeer(update.public_key)
    /\ peer_update_rx' = Tail(peer_update_rx)
    /\ UNCHANGED <<daemon_mode, server_pc>>

\* event_loop, peer update branch: rx.recv() returns None, the daemon has
\* dropped its sender; the loop breaks
ChannelClosed ==
    /\ server_pc = "running"
    /\ peer_update_rx = <<>>
    /\ server_pc' = "stopped"
    /\ ev' = Ev("channel_closed", "ok", 0, 0, 0)
    /\ UNCHANGED <<now, serial, peers, accepted_timestamp, daemon_mode,
                   peer_update_rx>>

\* DaemonService::handle_add_peer (IPC): has_peer is asked under the lock,
\* the update is sent after the lock is released
IpcAddPeer(peer_key) ==
    /\ server_pc = "running"
    /\ IF has_peer(peers, peer_key)
       THEN /\ ev' = [Ev("ipc_add_peer", "PEER_ALREADY_EXISTS", 0, 0, 0)
                       EXCEPT !.peer = peer_key]
            /\ UNCHANGED peer_update_rx
       ELSE /\ Len(peer_update_rx) < MaxUpdates
            /\ peer_update_rx' = Append(peer_update_rx, PeerUpdate("Add", peer_key))
            /\ ev' = [Ev("ipc_add_peer", "ok", 0, 0, 0) EXCEPT !.peer = peer_key]
    /\ UNCHANGED <<now, serial, peers, accepted_timestamp, daemon_mode, server_pc>>

\* routes::handle_add_peer (REST)
RestAddPeer(peer_key) ==
    /\ server_pc = "running"
    /\ Len(peer_update_rx) < MaxUpdates
    /\ peer_update_rx' = Append(peer_update_rx, PeerUpdate("Add", peer_key))
    /\ ev' = [Ev("rest_add_peer", "ok", 0, 0, 0) EXCEPT !.peer = peer_key]
    /\ UNCHANGED <<now, serial, peers, accepted_timestamp, daemon_mode, server_pc>>

\* DaemonService::handle_remove_peer (IPC)
IpcRemovePeer(peer_key) ==
    /\ server_pc = "running"
    /\ IF ~has_peer(peers, peer_key)
       THEN /\ ev' = [Ev("ipc_remove_peer", "PEER_NOT_FOUND", 0, 0, 0)
                       EXCEPT !.peer = peer_key]
            /\ UNCHANGED peer_update_rx
       ELSE /\ Len(peer_update_rx) < MaxUpdates
            /\ peer_update_rx' =
                  Append(peer_update_rx, PeerUpdate("Remove", peer_key))
            /\ ev' = [Ev("ipc_remove_peer", "ok", 0, 0, 0)
                       EXCEPT !.peer = peer_key,
                              !.was_connected = peers[peer_key].session # <<>>]
    /\ UNCHANGED <<now, serial, peers, accepted_timestamp, daemon_mode, server_pc>>

\* routes::handle_remove_peer (REST)
RestRemovePeer(peer_key) ==
    /\ server_pc = "running"
    /\ Len(peer_update_rx) < MaxUpdates
    /\ peer_update_rx' = Append(peer_update_rx, PeerUpdate("Remove", peer_key))
    /\ ev' = [Ev("rest_remove_peer", "ok", 0, 0, 0)
                EXCEPT !.peer = peer_key,
                       !.was_connected = IF has_peer(peers, peer_key)
                                         THEN peers[peer_key].session # <<>>
                                         ELSE FALSE]
    /\ UNCHANGED <<now, serial, peers, accepted_timestamp, daemon_mode, server_pc>>

D_ProcessPeerUpdate == ProcessPeerUpdate /\ UNCHANGED daemonFrame

D_ChannelClosed == ChannelClosed /\ UNCHANGED daemonFrame

D_IpcAddPeer == (\E k \in UpdateKeys : IpcAddPeer(k)) /\ UNCHANGED daemonFrame

D_RestAddPeer == (\E k \in UpdateKeys : RestAddPeer(k)) /\ UNCHANGED daemonFrame

D_IpcRemovePeer == (\E k \in UpdateKeys : IpcRemovePeer(k)) /\ UNCHANGED daemonFrame

D_RestRemovePeer == (\E k \in UpdateKeys : RestRemovePeer(k)) /\ UNCHANGED daemonFrame

NextDaemon ==
    \/ D_HandleHandshakeInitiation
    \/ D_HandleTransportPacket
    \/ D_HandleTunPacket
    \/ D_ProcessPeerUpdate
    \/ D_ChannelClosed
    \/ D_IpcAddPeer
    \/ D_RestAddPeer
    \/ D_IpcRemovePeer
    \/ D_RestRemovePeer

SpecDaemon == InitDaemon /\ [][NextDaemon]_vars

\* C12: an authenticated transport packet makes the responder set the peer's
\* endpoint to the packet's source address; the endpoint becomes an address
\* in no other way than by an authenticated packet or an accepted
\* initiation, and then the source of that message; and a packet the
\* responder originates for the peer is sent to the peer's endpoint.
C12_RoamingFollowsAuthenticatedSource ==
    [][/\ (ev'.op = "server_transport" /\ ev'.res = "ok") =>
              peers'[ev'.peer].endpoint = <<ev'.from>>
       /\ \A k \in DOMAIN peers \cap DOMAIN peers' :
              (peers'[k].endpoint # peers[k].endpoint /\ peers'[k].endpoint # <<>>) =>
                  /\ ev'.op \in {"server_transport", "handle_initiation"}
                  /\ ev'.res = "ok"
                  /\ ev'.peer = k
                  /\ peers'[k].endpoint = <<ev'.from>>
       /\ (ev'.op = "server_tun" /\ ev'.res = "ok") =>
              <<ev'.to>> = peers[ev'.peer].endpoint]_vars

\* C31: a peer's endpoint moves only with a packet that is authentic and is
\* not a replay: a transport packet that passed AEAD verification and the
\* replay check, or a Type 1 message whose timestamp is greater than every
\* timestamp accepted from that peer before; a forged or replayed packet sent
\* from another address never redirects the traffic sent to the peer.
C31_ReplayNeverMovesEndpoint ==
    [][\A k \in DOMAIN peers \cap DOMAIN peers' :
          (peers'[k].endpoint # peers[k].endpoint /\ peers'[k].endpoint # <<>>) =>
              /\ ev'.res = "ok"
              /\ ev'.peer = k
              /\ \/ ev'.op = "server_transport"
                 \/ ev'.op = "handle_initiation" /\ ev'.ctr > ev'.idx
      ]_vars

\* a session established at "A", the peer roamed to "B", and a packet of the
\* responder's went to "B"
C12_Witness ==
    /\ ev.op = "server_tun" /\ ev.res = "ok"
    /\ ev.to = "B"
    /\ peers[ev.peer].session[1].endpoint = "A"

\* the errors a handler returns for a received packet
ReceiveErrors ==
    {"MacVerification", "Decryption", "InvalidSenderIndex", "NoSession",
     "ReplayDetected", "InvalidMessageType"}

\* where the initiator's event loop stands: between events, or in the
\* perform_handshake of a rekey
ClientLoop == {"loop", "await_rekey"}

C16_AddExistingRejected ==
    [][/\ (ev'.op \in {"ipc_add_peer", "rest_add_peer"} /\ has_peer(peers, ev'.peer)) =>
              (ev'.res = "PEER_ALREADY_EXISTS" /\ peer_update_rx' = peer_update_rx)
       /\ (ev'.op = "add_peer" /\ has_peer(peers, ev'.peer)) => peers' = peers]_vars

\* C17: a RemovePeer request for a key that is not registered succeeds, on
\* either control transport, and the Remove update for it changes nothing;
\* a RemovePeer request for a registered peer, and the removal itself,
\* report whether the peer has a current session.
C17_RemoveIdempotent ==
    [][/\ (ev'.op \in {"ipc_remove_peer", "rest_remove_peer"}
           /\ ~has_peer(peers, ev'.peer)) => ev'.res = "ok"
       /\ (ev'.op = "remove_peer" /\ ~has_peer(peers, ev'.peer)) =>
              (ev'.res = "ok" /\ peers' = peers /\ ev'.emitted = <<>>)
       /\ (ev'.op \in {"ipc_remove_peer", "rest_remove_peer"}
           /\ has_peer(peers, ev'.peer)) =>
              ev'.was_connected = (peers[ev'.peer].session # <<>>)
       /\ (ev'.op = "remove_peer" /\ has_peer(peers, ev'.peer)) =>
              ev'.emitted = <<PeerEvent("Removed", ev'.peer, "none",
                                        peers[ev'.peer].session # <<>>)>>]_vars

\* the key pairs of the sessions a peer record holds
session_keys(peer) ==
    { x.key : x \in { peer.session[n] : n \in DOMAIN peer.session }
                      \cup { peer.previous[n] : n \in DOMAIN peer.previous } }

\* C18: a removal leaves the key unregistered; a key newly registered has no
\* session; and a transport packet is accepted, or a virtual-interface packet
\* routed, only for a registered peer and on a session its record holds.  So
\* from its removal on, nothing is accepted on a removed peer's sessions and
\* nothing is routed to it.
C18_RemovedPeerIsUnreachable ==
    [][/\ ev'.op = "remove_peer" => ~has_peer(peers', ev'.peer)
       /\ (ev'.op = "add_peer" /\ ~has_peer(peers, ev'.peer)) =>
              (peers'[ev'.peer].session = <<>> /\ peers'[ev'.peer].previous = <<>>)
       /\ (ev'.op \in {"server_transport", "server_tun"} /\ ev'.res = "ok") =>
              /\ has_peer(peers, ev'.peer)
              /\ ev'.key \in session_keys(peers[ev'.peer])]_vars

\* the peer had a session and was removed, and a transport packet finds no
\* owner
C18_Witness ==
    /\ serial > 0
    /\ ~has_peer(peers, "P1")
    /\ ev.op = "server_transport" /\ ev.res = "InvalidSenderIndex"

\* C19: with the event channel attached, a handshake the responder accepts,
\* the first of a peer or a rekey, emits exactly one event, PeerConnected
\* with the peer's public key and the source of the initiation; no other
\* operation emits a PeerConnected.
C19_AcceptedHandshakeEmitsConnected ==
    IF ev.op = "handle_initiation" /\ ev.res = "ok"
    THEN ev.emitted = <<PeerEvent("Connected", ev.peer, ev.from, FALSE)>>
    ELSE \A n \in DOMAIN ev.emitted : ev.emitted[n].type # "Connected"

\* a rekey: an initiation accepted from "B" for a peer that had a session
C19_Witness ==
    /\ ev.op = "handle_initiation" /\ ev.res = "ok"
    /\ ev.from = "B"
    /\ peers[ev.peer].previous # <<>>
    /\ Len(ev.emitted) = 1

\* C20: when a peer that has a current session is removed, a
\* PeerDisconnected event for that peer is emitted.
C20_RemovalEmitsDisconnected ==
    [][(/\ ev'.op = "remove_peer"
        /\ has_peer(peers, ev'.peer)
        /\ peers[ev'.peer].session # <<>>) =>
           \E n \in DOMAIN ev'.emitted :
               /\ ev'.emitted[n].type = "Disconnected"
               /\ ev'.emitted[n].public_key = ev'.peer]_vars

-----------------------------------------------------------------------------
(* The parsers of the fixed-size messages (messages.rs): from_bytes on a    *)
(* datagram, of which the parser reads the length and the type byte         *)

HandshakeInitiation_SIZE == 148
HandshakeResponse_SIZE == 92
CookieReply_SIZE == 64

\* bounds: datagrams are up to MaxExtra bytes shorter or longer than a
\* message size, and their first byte is 0 .. MaxType
MaxExtra == 1
MaxType == 5

\* the three parsers: the type byte and the size each one expects
Parsers ==
    { [name |-> "HandshakeInitiation", type |-> 1, size |-> HandshakeInitiation_SIZE],
      [name |-> "HandshakeResponse", type |-> 2, size |-> HandshakeResponse_SIZE],
      [name |-> "CookieReply", type |-> 3, size |-> CookieReply_SIZE] }

\* the lengths of the datagrams presented (a datagram shorter than one byte
\* never reaches a parser: get_message_type refuses it)
DatagramLengths ==
    { p.size + d : p \in Parsers, d \in (0 - MaxExtra) .. MaxExtra }

\* HandshakeInitiation / HandshakeResponse / CookieReply ::from_bytes on a
\* datagram of len bytes whose first byte is type_byte
from_bytes(parser, len, type_byte) ==
    IF len < parser.size THEN "InvalidMessageLength"
    ELSE IF type_byte # parser.type THEN "InvalidMessageType"
    ELSE "ok"

\* one call <parser>::from_bytes(data)
FromBytes(parser, len, type_byte) ==
    ev' = [Ev("from_bytes", from_bytes(parser, len, type_byte), type_byte, len, 0)
             EXCEPT !.peer = parser.name]

InitParser ==
    /\ WindowNew
    /\ TransportNew /\ overflow_checks = FALSE
    /\ ManagerNew /\ keepalive_interval = <<>>
    /\ ClientNew
    /\ ServerNew
    /\ HandshakeNew
    /\ ServiceNew
    /\ ev = NoEv

P_FromBytes ==
    /\ \E parser \in Parsers, len \in DatagramLengths, type_byte \in 0 .. MaxType :
          FromBytes(parser, len, type_byte)
    /\ UNCHANGED <<windowVars, transportVars, managerVars, clientVars, serverVars,
                   handshakeVars, serviceVars>>

NextParser == P_FromBytes

SpecParser == InitParser /\ [][NextParser]_vars

\* the size of the message a parser's name stands for
SizeOf(name) == (CHOOSE p \in Parsers : p.name = name).size

\* C40: a parser accepts a Type 1, Type 2 or Type 3 message only if its
\* length is exactly 148, 92 or 64 bytes; with any other length the message
\* is rejected.
C40_ExactLengthOnly ==
    (ev.op = "from_bytes" /\ ev.res = "ok") => ev.ctr = SizeOf(ev.peer)


-----------------------------------------------------------------------------
(* DaemonService: the control requests that bring a VPN instance up and     *)
(* down, step by step.  Every `state.lock().await` scope that ends before   *)
(* the next await is one step; a scope that is still open at the next await *)
(* leaves the lock with the request.  Requests arrive on separate           *)
(* connections, each handled by its own task, so their steps interleave.    *)

\* connections with a request in progress at once
MaxClients == 2
\* requests submitted in all
MaxRequests == 3
\* VPN instances brought up in all
MaxInstances == 2

Clients == 1 .. MaxClients
Instances == 1 .. MaxInstances

\* the methods of process_request that are modelled
Methods == {"connect", "start", "disconnect", "stop", "status"}

\* DaemonState::new, no request in progress, no VPN task
DaemonStateNew ==
    [connection_state |-> "Disconnected",
     mode |-> <<>>,             \* Option<VpnMode>: <<>> or <<[kind, instance]>>
     started_at |-> <<>>,       \* Option<String>: <<>> or <<instance>>
     shutdown_tx |-> <<>>,      \* Option<watch::Sender>: <<>> or <<instance>>
     error_message |-> <<>>,    \* Option<String>
     lock |-> <<>>,             \* <<the connection>> whose request holds the DaemonState lock
     req |-> [c \in Clients |->
                 [method |-> "none", config_ok |-> TRUE, pc |-> "idle",
                  response |-> "none", instance |-> 0]],
     submitted |-> 0,           \* requests submitted so far
     task |-> [i \in Instances |-> "none"],  \* the background task of each instance
     kind |-> [i \in Instances |-> "none"],  \* "Client" or "Server"
     instances |-> 0,           \* instances brought up so far
     peers_lock |-> "none",     \* the holder of the shared peer registry's lock
     loop |-> "idle",           \* where the server's handle_handshake_initiation stands
     blocking |-> FALSE]        \* history: blocking_lock was called in an async handler

\* the first step of a method's handler
first_step(method) ==
    CASE method \in {"connect", "start"} -> "check"
      [] method \in {"disconnect", "stop"} -> "stop"
      [] OTHER -> "status"

\* the step after a send_status_notification
after_notification(at) ==
    CASE at = "notify_connecting" -> "parse"
      [] at = "notify_connected" -> "done"
      [] at = "notify_error" -> "done"
      [] at = "notify_failed" -> "done"
      [] OTHER -> "done"

\* the response of the handler that returns after a send_status_notification
response_after(method, at) ==
    CASE at = "notify_connecting" -> "none"
      [] at = "notify_connected" -> IF method = "connect" THEN "connected" ELSE "started"
      [] at = "notify_error" -> "INVALID_CONFIG"
      [] at = "notify_failed" -> "CONNECTION_FAILED"
      [] OTHER -> IF method = "disconnect" THEN "disconnected" ELSE "stopped"

\* a request arrives on a connection that has none in progress
SubmitRequest(c, method, config_ok) ==
    /\ svc.req[c].pc \in {"idle", "done"}
    /\ svc.submitted < MaxRequests
    /\ svc' = [svc EXCEPT !.submitted = @ + 1,
                          !.req[c] = [method |-> method, config_ok |-> config_ok,
                                      pc |-> first_step(method), response |-> "none",
                                      instance |-> 0]]
    /\ ev' = [Ev("request", "ok", c, 0, 0) EXCEPT !.peer = method]

\* handle_connect / handle_start_server: "Check if already running"
CheckRunning(c) ==
    /\ svc.req[c].pc = "check"
    /\ svc.lock = <<>>
    /\ IF svc.connection_state \in {"Connected", "Connecting"}
       THEN svc' = [svc EXCEPT !.req[c].pc = "done",
                               !.req[c].response =
                                   IF svc.req[c].method = "connect"
                                   THEN "ALREADY_CONNECTED" ELSE "ALREADY_RUNNING"]
       ELSE svc' = [svc EXCEPT !.req[c].pc = "set_connecting"]
    /\ ev' = Ev("check", IF svc.connection_state \in {"Connected", "Connecting"}
                         THEN "rejected" ELSE "ok", c, 0, 0)

\* handle_connect / handle_start_server: "Update state to connecting"
SetConnecting(c) ==
    /\ svc.req[c].pc = "set_connecting"
    /\ svc.lock = <<>>
    /\ svc' = [svc EXCEPT !.connection_state = "Connecting",
                          !.error_message = <<>>,
                          !.req[c].pc = "notify_connecting"]
    /\ ev' = Ev("set_connecting", "ok", c, 0, 0)

\* send_status_notification, and the rest of the handler up to its next lock
\* or its return.  It takes the DaemonState lock; in server mode it calls
\* blocking_lock on the peer registry from the async handler, which either
\* panics the handler's task or goes through.
SendStatusNotification(c, outcome) ==
    LET at == svc.req[c].pc
        method == svc.req[c].method
        server_mode == svc.mode # <<>> /\ svc.mode[1].kind = "Server"
        i == svc.instances
    IN  /\ at \in {"notify_connecting", "notify_connected", "notify_error",
                   "notify_failed", "notify_stopping"}
        /\ svc.lock = <<>>
        /\ outcome = "panic" => server_mode
        /\ (outcome = "acquired" /\ server_mode) => svc.peers_lock = "none"
        /\ IF outcome = "panic"
           THEN svc' = [svc EXCEPT !.req[c].pc = "panicked", !.blocking = TRUE]
           ELSE svc' = [svc EXCEPT
                           !.req[c].pc = after_notification(at),
                           !.req[c].response = response_after(method, at),
                           !.blocking = @ \/ server_mode,
                           \* the invalid-config path returns and drops its guard
                           !.lock = IF at = "notify_error" THEN <<>> ELSE @,
                           \* tokio::spawn of the background task
                           !.task = IF at = "notify_connected"
                                    THEN [@ EXCEPT ![svc.req[c].instance] =
                                             IF @ = "created" THEN "running"
                                             ELSE "signalled"]
                                    ELSE @]
        /\ ev' = Ev("notify", outcome, c, 0, 0)

\* handle_connect / handle_start_server: "Parse config".  On an error the
\* handler takes the lock, sets Error and calls send_status_notification
\* with the guard still alive; that call waits for the same lock.
ParseConfig(c) ==
    /\ svc.req[c].pc = "parse"
    /\ IF svc.req[c].config_ok
       THEN svc' = [svc EXCEPT !.req[c].pc = "create"]
       ELSE /\ svc.lock = <<>>
            /\ svc' = [svc EXCEPT !.lock = <<c>>,
                                  !.connection_state = "Error",
                                  !.error_message = <<"Invalid config">>,
                                  !.req[c].pc = "notify_error"]
    /\ ev' = Ev("parse", IF svc.req[c].config_ok THEN "ok" ELSE "INVALID_CONFIG",
                c, 0, 0)

\* handle_connect / handle_start_server: WireGuardClient::new or
\* WireGuardServer::new_with_channels, and the state update after it
CreateInstance(c, created) ==
    LET i == svc.instances + 1
        method == svc.req[c].method
    IN  /\ svc.req[c].pc = "create"
        /\ svc.lock = <<>>
        /\ IF created
           THEN /\ svc.instances < MaxInstances
                /\ svc' = [svc EXCEPT
                              !.connection_state = "Connected",
                              !.mode = <<[kind |-> IF method = "connect" THEN "Client"
                                                   ELSE "Server",
                                          instance |-> i]>>,
                              !.started_at = <<i>>,
                              !.shutdown_tx = <<i>>,
                              !.instances = i,
                              !.task[i] = "created",
                              !.kind[i] = IF method = "connect" THEN "Client"
                                          ELSE "Server",
                              !.req[c].instance = i,
                              !.req[c].pc = "notify_connected"]
           ELSE svc' = [svc EXCEPT !.connection_state = "Error",
                                   !.error_message = <<"Connection failed">>,
                                   !.req[c].pc = "notify_failed"]
        /\ ev' = Ev("create", IF created THEN "ok" ELSE "CONNECTION_FAILED", c, 0, 0)

\* handle_disconnect / handle_stop_server, up to drop(s)
StopInstance(c) ==
    LET method == svc.req[c].method
        wanted == IF method = "disconnect" THEN "Client" ELSE "Server"
        running == svc.mode # <<>> /\ svc.mode[1].kind = wanted
    IN  /\ svc.req[c].pc = "stop"
        /\ svc.lock = <<>>
        /\ IF ~running
           THEN svc' = [svc EXCEPT !.req[c].pc = "done",
                                   !.req[c].response =
                                       IF method = "disconnect" THEN "NOT_CONNECTED"
                                       ELSE "SERVER_NOT_RUNNING"]
           ELSE svc' = [svc EXCEPT
                           !.connection_state = "Disconnecting",
                           !.task = IF svc.shutdown_tx = <<>> THEN @
                                    ELSE [@ EXCEPT ![svc.shutdown_tx[1]] =
                                             CASE @ = "created" -> "created_signalled"
                                               [] @ = "running" -> "signalled"
                                               [] OTHER -> @],
                           !.req[c].pc = "notify_stopping"]
        /\ ev' = Ev("stop", IF running THEN "ok" ELSE "NOT_CONNECTED", c, 0, 0)

\* handle_status: in server mode it calls blocking_lock on the peer registry
HandleStatus(c, outcome) ==
    LET server_mode == svc.mode # <<>> /\ svc.mode[1].kind = "Server"
    IN  /\ svc.req[c].pc = "status"
        /\ svc.lock = <<>>
        /\ outcome = "panic" => server_mode
        /\ (outcome = "acquired" /\ server_mode) => svc.peers_lock = "none"
        /\ IF outcome = "panic"
           THEN svc' = [svc EXCEPT !.req[c].pc = "panicked", !.blocking = TRUE]
           ELSE svc' = [svc EXCEPT !.req[c].pc = "done",
                                   !.req[c].response = svc.connection_state,
                                   !.blocking = @ \/ server_mode]
        /\ ev' = Ev("status", outcome, c, 0, 0)

\* the background task of an instance: run() has returned or the shutdown
\* signal was seen; "Update state based on result"
TaskEnds(i, result) ==
    /\ svc.task[i] \in {"running", "signalled"}
    /\ svc.task[i] = "signalled" => result = "ok"
    /\ svc.lock = <<>>
    /\ svc' = [svc EXCEPT
                  !.connection_state = IF result = "ok" THEN "Disconnected" ELSE "Error",
                  !.error_message = IF result = "ok" THEN @ ELSE <<"run">>,
                  !.mode = <<>>,
                  !.started_at = <<>>,
                  !.shutdown_tx = <<>>,
                  !.task[i] = "ended",
                  \* the cancelled run() future drops what it holds
                  !.peers_lock = IF svc.kind[i] = "Server" THEN "none" ELSE @,
                  !.loop = IF svc.kind[i] = "Server" THEN "idle" ELSE @]
    /\ ev' = Ev("task_end", result, i, 0, 0)

\* WireGuardServer::handle_handshake_initiation in daemon mode, from
\* shared.lock().await to socket.send_to(..).await
ServerLockPeers(i) ==
    /\ svc.kind[i] = "Server"
    /\ svc.task[i] \in {"running", "signalled"}
    /\ svc.loop = "idle"
    /\ svc.peers_lock = "none"
    /\ svc' = [svc EXCEPT !.peers_lock = "server", !.loop = "send_to"]
    /\ ev' = Ev("server_lock", "ok", i, 0, 0)

\* .. and from the completion of send_to to drop(peers)
ServerSendTo(i) ==
    /\ svc.kind[i] = "Server"
    /\ svc.task[i] \in {"running", "signalled"}
    /\ svc.loop = "send_to"
    /\ svc' = [svc EXCEPT !.peers_lock = "none", !.loop = "idle"]
    /\ ev' = Ev("server_send_to", "ok", i, 0, 0)

InitService ==
    /\ WindowNew
    /\ TransportNew /\ overflow_checks = FALSE
    /\ ManagerNew /\ keepalive_interval = <<>>
    /\ ClientNew
    /\ ServerNew
    /\ HandshakeNew
    /\ svc = DaemonStateNew
    /\ ev = NoEv

ServiceFrame ==
    <<windowVars, transportVars, managerVars, clientVars, serverVars, handshakeVars>>

V_SubmitRequest ==
    /\ \E c \in Clients, method \in Methods, config_ok \in BOOLEAN :
          /\ (method \notin {"connect", "start"}) => config_ok
          /\ SubmitRequest(c, method, config_ok)
    /\ UNCHANGED ServiceFrame

V_CheckRunning == (\E c \in Clients : CheckRunning(c)) /\ UNCHANGED ServiceFrame

V_SetConnecting == (\E c \in Clients : SetConnecting(c)) /\ UNCHANGED ServiceFrame

V_SendStatusNotification ==
    /\ \E c \in Clients, outcome \in {"panic", "acquired"} :
          SendStatusNotification(c, outcome)
    /\ UNCHANGED ServiceFrame

V_ParseConfig == (\E c \in Clients : ParseConfig(c)) /\ UNCHANGED ServiceFrame

V_CreateInstance ==
    /\ \E c \in Clients, created \in BOOLEAN : CreateInstance(c, created)
    /\ UNCHANGED ServiceFrame

V_StopInstance == (\E c \in Clients : StopInstance(c)) /\ UNCHANGED ServiceFrame

V_HandleStatus ==
    /\ \E c \in Clients, outcome \in {"panic", "acquired"} : HandleStatus(c, outcome)
    /\ UNCHANGED ServiceFrame

V_TaskEnds ==
    /\ \E i \in Instances, result \in {"ok", "error"} : TaskEnds(i, result)
    /\ UNCHANGED ServiceFrame

V_ServerLockPeers == (\E i \in Instances : ServerLockPeers(i)) /\ UNCHANGED ServiceFrame

V_ServerSendTo == (\E i \in Instances : ServerSendTo(i)) /\ UNCHANGED ServiceFrame

NextService ==
    \/ V_SubmitRequest
    \/ V_CheckRunning
    \/ V_SetConnecting
    \/ V_SendStatusNotification
    \/ V_ParseConfig
    \/ V_CreateInstance
    \/ V_StopInstance
    \/ V_HandleStatus
    \/ V_TaskEnds
    \/ V_ServerLockPeers
    \/ V_ServerSendTo

SpecService == InitService /\ [][NextService]_vars

\* the same, with every step that can be taken eventually taken
SpecServiceFair == SpecService /\ WF_vars(NextService)

\* C36: of the connect and start-server requests in progress together, at
\* most one passes the already-running check and brings up a VPN instance:
\* there are never two instances up that have not been told to shut down.
C36_OneInstanceAtATime ==
    Cardinality({i \in Instances : svc.task[i] \in {"created", "running"}}) <= 1

\* C37: a background task that ends resets connection_state, mode,
\* started_at and shutdown_tx only if its instance is still the active one.
C37_LateTaskLeavesStateAlone ==
    [][(/\ ev'.op = "task_end"
        /\ (svc.mode = <<>> \/ svc.mode[1].instance # ev'.idx)) =>
          /\ svc'.connection_state = svc.connection_state
          /\ svc'.mode = svc.mode
          /\ svc'.started_at = svc.started_at
          /\ svc'.shutdown_tx = svc.shutdown_tx
      ]_vars

\* C38: a connect or start-server request whose configuration does not
\* parse completes: it gets the INVALID_CONFIG response, with the daemon in
\* state Error at that moment and the DaemonState lock free for later
\* requests.
C38_InvalidConfigCompletes ==
    \A c \in Clients :
        (svc.req[c].pc = "parse" /\ ~svc.req[c].config_ok)
            ~> (/\ svc.req[c].response = "INVALID_CONFIG"
                /\ svc.lock = <<>>)

\* C39: the lock of the shared peer registry is never held across a
\* suspension point, and no blocking lock acquisition is made from an async
\* request handler.
C39_NoLockAcrossSuspension ==
    /\ ~(svc.peers_lock # "none" /\ svc.loop = "send_to")
    /\ ~svc.blocking

=============================================================================
